---- MODULE Spec2Model ----
(***************************************************************************)
(* Ecliptica perps bot (src/ecliptica_bot.py): the per-user busy guard,    *)
(* the access policy over the subscriptions table, promo redemption and    *)
(* the completion gateway (rei_call), as a state machine.                  *)
(*                                                                         *)
(* Handlers run on one cooperative event loop.  A handler is atomic up to  *)
(* the point where it awaits the completion service; each HTTP call to     *)
(* the service is a suspension point at which other handlers may run.      *)
(* Time is in seconds.  One service call lasts at most the 30 s timeout    *)
(* (lines 693, 793) and a request makes at most three of them, well below  *)
(* the 300 s failsafe window, so the clock advances only between requests. *)
(***************************************************************************)
EXTENDS Integers, Sequences, FiniteSets, TLC

\* ----------------------------------------------------------------- bounds
NumSlots == 2
MaxTicks == 1
MaxChecks == 3
MaxUsage == 4
MaxCharges == 1
NumQuests == 3
NumOps == 2

\* ------------------------------------------------------ program constants
FREE_ANALYSIS_LIMIT == 3
FAILSAFE_SECONDS == 300
MAX_CACHE_AGE == 3600
max_retries == 1
SECONDS_PER_DAY == 86400

Users == { 1 }
Slots == 1..NumSlots

\* Optional values: None models Python's None / SQL NULL / an absent key.
None == << >>
Some(x) == << x >>
IsNone(o) == o = << >>
Val(o) == o[1]

PROMO_CODES == [ECLIPTICA2024 |-> 30, PERPSMASTER |-> 90, UNLIMITED2024 |-> 3650]
PromoNames == DOMAIN PROMO_CODES

SUBSCRIPTION_PLANS == [monthly |-> 30, quarterly |-> 90, annual |-> 365]
PlanNames == DOMAIN SUBSCRIPTION_PLANS


Assets == { "BTC-PERP" }
AnalysisTypes == { "market", "setup" }

\* ------------------------------------------------------------ text inputs
\* The two conversions the handlers apply to free text: str.strip() and
\* str.upper().

strip(t) == IF t = " " THEN "" ELSE t

upper(t) ==
    CASE t = "btc" -> "BTC"
      [] t = "trade btc" -> "TRADE BTC"
      [] t = "ecliptica2024" -> "ECLIPTICA2024"
      [] OTHER -> t

\* `keyword in asset` for the special keywords of handle_custom_asset
HasSpecialKeyword(a) == a \in { "TRADE BTC" }

endswith_PERP(a) == a \in { "ETH-PERP" }

add_PERP(a) ==
    CASE a = "BTC" -> "BTC-PERP"
      [] OTHER -> a \o "-PERP"

VARIABLES
    now,             \* wall clock, seconds
    ticks,           \* number of clock advances so far
    user_states,     \* user -> None | Some([processing, last_request_time])
    subscriptions,   \* user -> None | Some(row of the subscriptions table)
    profile,         \* user -> None | Some(stored profile)
    conv,            \* user -> state of the promo-code conversation
    RESPONSE_CACHE,  \* cache key -> None | Some([response, timestamp])
    token_lock,      \* None | Some(slot holding the global lock)
    slots,           \* requests suspended on the completion service
    acquired_at,     \* history: user -> time the guard was taken and not yet released
    ev,              \* history: what the last step did
    payments,        \* charge id -> None | Some(row of the payments table)
    COINBASE_WEBHOOK_SECRET,  \* "" when the environment does not set it
    last_event,      \* history: the last webhook event handed to handle_webhook
    user_data,       \* user -> None | Some([i, ans]): ctx.user_data of the wizard
    setup_state,     \* user -> state of the setup conversation
    asked,           \* user -> question keys whose buttons are in the chat
    asset_entry,     \* user -> the bot asked for a symbol and none was entered since
    ops,             \* subscription writes in progress between their two statements
    buttons,         \* user -> callback data of the menu buttons that are in the chat
    cached_for,      \* history: cache key -> the prompt whose reply the cache holds
    auto_renew,            \* user -> column auto_renew of the subscription row
    last_renewal_attempt,  \* user -> column last_renewal_attempt (None is NULL)
    renewal_payment_id,    \* user -> column renewal_payment_id (None is NULL)
    renewal_subs,          \* None while the scheduler sleeps, else the rows still to renew
    renewal_started_at,    \* history: user -> when the last renewal of the row started
    checks                 \* renewal checks the scheduler has finished

\* The renewal columns of subscription_handlers.py and its scheduler.
renew_vars == << auto_renew, last_renewal_attempt, renewal_payment_id,
                renewal_subs, renewal_started_at, checks >>

vars == << now, ticks, user_states, subscriptions, profile, conv,
           RESPONSE_CACHE, cached_for, token_lock, slots, acquired_at, ev,
           payments, COINBASE_WEBHOOK_SECRET, last_event,
           user_data, setup_state, asked, asset_entry, ops, buttons, renew_vars >>

\* What only the setup wizard touches.
setup_vars == << user_data, setup_state, asked >>

\* What only the payment handlers touch.
pay_vars == << payments, COINBASE_WEBHOOK_SECRET, last_event >>

CacheKeys == Assets \X AnalysisTypes

\* ------------------------------------------------------------ setup wizard
\* The keys of QUESTS in order, and two of the options of each.
QUESTS == << "experience", "capital", "risk", "quote", "timeframe", "leverage",
             "funding", "verbosity" >>
OPTIONS == [ experience |-> { "0-3m", ">12m" }, capital   |-> { "1k", "10k+" },
             risk       |-> { "1%", "5%" },     quote     |-> { "USDT", "BTC" },
             timeframe  |-> { "scalp", "swing" }, leverage |-> { "1x", "10x" },
             funding    |-> { "yes", "unsure" }, verbosity |-> { "brief", "detailed" } ]

\* The wizard of the model asks the first NumQuests questions.
Quests == SubSeq(QUESTS, 1, NumQuests)
len_QUESTS == Len(Quests)
QuestKeys == { Quests[n] : n \in 1..len_QUESTS }

\* A dict of answers: a function from the keys given so far to their values.
EmptyAns == [k \in {} |-> ""]
SetAns(ans, key, value) ==
    [k \in DOMAIN ans \cup { key } |-> IF k = key THEN value ELSE ans[k]]

\* json.dumps(profile_data) as stored in profile.data, and json.loads of it.
json_dumps(d) == [ json |-> d ]
json_loads(j) == j.json

\* A profile as a completed wizard stores it.
StoredProfile == json_dumps([k \in QuestKeys |-> CHOOSE v \in OPTIONS[k] : TRUE])

\* query.data.split(":") of the callbacks that match ^setup: the answer
\* buttons, and the "Setup Profile Now" button of trade_start.
AnswerPayloads(keys) == { << "setup", k, v >> : k \in keys, v \in UNION { OPTIONS[q] : q \in keys } }
SetupPayloads(keys) ==
    { p \in AnswerPayloads(keys) : p[3] \in OPTIONS[p[2]] } \cup { << "setup", "start" >> }

\* ---------------------------------------------------------- the busy guard
\* Mutant: the guard never reports a request in progress.
check_user_state_always_free(us, u, t) ==
    [ ok |-> TRUE, branch |-> "free",
      us |-> [us EXCEPT ![u] = Some([processing |-> FALSE, last_request_time |-> t])] ]

\* Mutant: the failsafe fires at exactly 300 s instead of after 300 s.
check_user_state_at_window(us, u, t) ==
    IF IsNone(us[u]) \/ ~Val(us[u]).processing
    THEN [ ok |-> TRUE, branch |-> "free",
           us |-> [us EXCEPT ![u] = Some([processing |-> FALSE, last_request_time |-> t])] ]
    ELSE IF t - Val(us[u]).last_request_time >= FAILSAFE_SECONDS
    THEN [ ok |-> TRUE, branch |-> "healed",
           us |-> [us EXCEPT ![u] = Some([processing |-> FALSE, last_request_time |-> t])] ]
    ELSE [ ok |-> FALSE, branch |-> "busy", us |-> us ]

\* check_user_state: the result and the user_states it leaves behind.
check_user_state(us, u, t) ==
    IF IsNone(us[u]) \/ ~Val(us[u]).processing
    THEN [ ok |-> TRUE, branch |-> "free",
           us |-> [us EXCEPT ![u] = Some([processing |-> FALSE, last_request_time |-> t])] ]
    ELSE IF t - Val(us[u]).last_request_time > FAILSAFE_SECONDS
    THEN [ ok |-> TRUE, branch |-> "healed",
           us |-> [us EXCEPT ![u] = Some([processing |-> FALSE, last_request_time |-> t])] ]
    ELSE [ ok |-> FALSE, branch |-> "busy", us |-> us ]

\* Mutant: an existing entry only gets its time stamped, the flag is kept.
set_user_processing_keeps_flag(us, u, processing, t) ==
    IF IsNone(us[u])
    THEN [us EXCEPT ![u] = Some([processing |-> processing, last_request_time |-> t])]
    ELSE [us EXCEPT ![u] = Some([processing |-> Val(us[u]).processing,
                                 last_request_time |->
                                    IF processing THEN t
                                    ELSE Val(us[u]).last_request_time])]

set_user_processing(us, u, processing, t) ==
    IF IsNone(us[u])
    THEN [us EXCEPT ![u] = Some([processing |-> processing, last_request_time |-> t])]
    ELSE [us EXCEPT ![u] = Some([processing |-> processing,
                                 last_request_time |->
                                    IF processing THEN t
                                    ELSE Val(us[u]).last_request_time])]

\* ------------------------------------------------------- subscriptions
\* Mutant: is_active looks at end_date only.
get_user_subscription_ignores_status(subs, u, t) ==
    IF IsNone(subs[u]) THEN None
    ELSE IF IsNone(Val(subs[u]).end_date) THEN None
    ELSE Some([ row |-> Val(subs[u]),
                is_active |-> Val(Val(subs[u]).end_date) > t ])

\* get_user_subscription: None when there is no row, and also when the row's
\* end_date is NULL (the comparison end_date > now raises and the except
\* clause returns None).
get_user_subscription(subs, u, t) ==
    IF IsNone(subs[u]) THEN None
    ELSE IF IsNone(Val(subs[u]).end_date) THEN None
    ELSE Some([ row |-> Val(subs[u]),
                is_active |-> Val(Val(subs[u]).end_date) > t
                              /\ Val(subs[u]).status = "active" ])

check_subscription_access(subs, u, t) ==
    LET subscription == get_user_subscription(subs, u, t)
        usage_count == IF IsNone(subscription) THEN 0
                       ELSE Val(subscription).row.usage_count
    IN  IF ~IsNone(subscription) /\ Val(subscription).is_active
        THEN [ has_access |-> TRUE, message |-> "" ]
        ELSE IF usage_count < FREE_ANALYSIS_LIMIT
        THEN [ has_access |-> TRUE, message |-> "free_remaining" ]
        ELSE [ has_access |-> FALSE, message |-> "limit_reached" ]

increment_usage_count(subs, u) ==
    IF IsNone(subs[u])
    THEN [subs EXCEPT ![u] = Some([ plan_type |-> None, start_date |-> None,
                                    end_date |-> None, payment_id |-> None,
                                    status |-> "free", usage_count |-> 1,
                                    promo_code |-> None ])]
    ELSE [subs EXCEPT ![u] = Some([Val(subs[u]) EXCEPT !.usage_count = @ + 1])]

\* Mutant: a redemption extends a running subscription from its end_date.
create_subscription_extends(subs, u, plan_type, payment_id, promo_code, t) ==
    LET promo == ~IsNone(promo_code) /\ Val(promo_code) \in PromoNames
        from == IF ~IsNone(subs[u]) /\ ~IsNone(Val(subs[u]).end_date)
                THEN Val(Val(subs[u]).end_date) ELSE t
        end_date == from + PROMO_CODES[Val(promo_code)] * SECONDS_PER_DAY
        row == [ plan_type |-> Some("promo"), start_date |-> Some(t),
                 end_date |-> Some(end_date), payment_id |-> payment_id,
                 status |-> "active",
                 usage_count |-> IF IsNone(subs[u]) THEN 0 ELSE Val(subs[u]).usage_count,
                 promo_code |-> promo_code ]
    IN  IF ~promo THEN [ ok |-> FALSE, subs |-> subs ]
        ELSE [ ok |-> TRUE, subs |-> [subs EXCEPT ![u] = Some(row)] ]

\* Mutant: the UPDATE of an existing row also resets its usage_count.
create_subscription_resets_usage(subs, u, plan_type, payment_id, promo_code, t) ==
    LET paid == ~IsNone(plan_type) /\ Val(plan_type) \in PlanNames
        promo == ~paid /\ ~IsNone(promo_code) /\ Val(promo_code) \in PromoNames
        days == IF paid THEN SUBSCRIPTION_PLANS[Val(plan_type)]
                ELSE PROMO_CODES[Val(promo_code)]
        ptype == IF paid THEN plan_type ELSE Some("promo")
        end_date == t + days * SECONDS_PER_DAY
    IN  IF ~paid /\ ~promo
        THEN [ ok |-> FALSE, subs |-> subs ]
        ELSE [ ok |-> TRUE,
               subs |-> [subs EXCEPT ![u] = Some([ plan_type |-> ptype,
                            start_date |-> Some(t), end_date |-> Some(end_date),
                            payment_id |-> payment_id, status |-> "active",
                            usage_count |-> 0, promo_code |-> promo_code ])] ]

\* create_subscription(user_id, plan_type, payment_id, promo_code): the
\* success flag and the table afterwards.  plan_type and promo_code are
\* optional strings.
create_subscription(subs, u, plan_type, payment_id, promo_code, t) ==
    LET paid == ~IsNone(plan_type) /\ Val(plan_type) \in PlanNames
        promo == ~paid /\ ~IsNone(promo_code) /\ Val(promo_code) \in PromoNames
        days == IF paid THEN SUBSCRIPTION_PLANS[Val(plan_type)]
                ELSE PROMO_CODES[Val(promo_code)]
        ptype == IF paid THEN plan_type ELSE Some("promo")
        end_date == t + days * SECONDS_PER_DAY
    IN  IF ~paid /\ ~promo
        THEN [ ok |-> FALSE, subs |-> subs ]
        ELSE IF ~IsNone(subs[u])
        THEN [ ok |-> TRUE,
               subs |-> [subs EXCEPT ![u] = Some([ Val(subs[u]) EXCEPT
                            !.plan_type = ptype, !.start_date = Some(t),
                            !.end_date = Some(end_date), !.payment_id = payment_id,
                            !.status = "active", !.promo_code = promo_code ])] ]
        ELSE [ ok |-> TRUE,
               subs |-> [subs EXCEPT ![u] = Some([ plan_type |-> ptype,
                            start_date |-> Some(t), end_date |-> Some(end_date),
                            payment_id |-> payment_id, status |-> "active",
                            usage_count |-> 0, promo_code |-> promo_code ])] ]

verify_promo_code(code) == upper(code) \in PromoNames

\* The two statements of a subscription write, which the code awaits one
\* after the other: the SELECT of the row's uid, then the INSERT or UPDATE
\* chosen from what the SELECT returned.  uid is the primary key, so an
\* INSERT for a uid that has a row raises and the function returns its
\* failure value.
OpIds == 1..NumOps
IdleOp == [ kind |-> "none", pc |-> "idle", existing |-> FALSE, result |-> "none" ]

select_uid(subs, u) == ~IsNone(subs[u])

create_subscription_execute(subs, u, existing, promo_code, t) ==
    LET end_date == t + PROMO_CODES[promo_code] * SECONDS_PER_DAY
    IN  IF existing
        THEN [ ok |-> TRUE,
               subs |-> IF IsNone(subs[u]) THEN subs
                        ELSE [subs EXCEPT ![u] = Some([ Val(subs[u]) EXCEPT
                                 !.plan_type = Some("promo"), !.start_date = Some(t),
                                 !.end_date = Some(end_date), !.payment_id = None,
                                 !.status = "active", !.promo_code = Some(promo_code) ])] ]
        ELSE IF ~IsNone(subs[u])
        THEN [ ok |-> FALSE, subs |-> subs ]
        ELSE [ ok |-> TRUE,
               subs |-> [subs EXCEPT ![u] = Some([ plan_type |-> Some("promo"),
                            start_date |-> Some(t), end_date |-> Some(end_date),
                            payment_id |-> None, status |-> "active",
                            usage_count |-> 0, promo_code |-> Some(promo_code) ])] ]

increment_usage_count_execute(subs, u, exists) ==
    IF ~exists
    THEN IF ~IsNone(subs[u])
         THEN [ ok |-> FALSE, subs |-> subs ]
         ELSE [ ok |-> TRUE, subs |-> increment_usage_count(subs, u) ]
    ELSE [ ok |-> ~IsNone(subs[u]),
           subs |-> IF IsNone(subs[u]) THEN subs ELSE increment_usage_count(subs, u) ]

\* ------------------------------------------------------ completion gateway
\* hints: None, or Some(<<asset_name, analysis_type>>) when both are given.

\* Mutant: an entry whose age equals MAX_CACHE_AGE is still served.
cache_lookup_at_ttl(cache, hints, t) ==
    IF IsNone(hints) THEN None
    ELSE IF IsNone(cache[Val(hints)]) THEN None
    ELSE IF t - Val(cache[Val(hints)]).timestamp <= MAX_CACHE_AGE
    THEN Some(Val(cache[Val(hints)]).response)
    ELSE None

cache_lookup(cache, hints, t) ==
    IF IsNone(hints) THEN None
    ELSE IF IsNone(cache[Val(hints)]) THEN None
    ELSE IF t - Val(cache[Val(hints)]).timestamp < MAX_CACHE_AGE
    THEN Some(Val(cache[Val(hints)]).response)
    ELSE None

cache_store(cache, hints, result, t) ==
    IF IsNone(hints) THEN cache
    ELSE [cache EXCEPT ![Val(hints)] = Some([response |-> result, timestamp |-> t])]

FreeSlot == [ kind |-> "free", user |-> 0, hints |-> None, pc |-> "idle",
              retry_count |-> 0, guarded |-> FALSE, prompt |-> None ]

IsFree(s) == slots[s].kind = "free"
InFlight == { s \in Slots : ~IsFree(s) }
HasFreeSlot == \E s \in Slots : IsFree(s)
NextSlot == CHOOSE s \in Slots : IsFree(s) /\ \A r \in Slots : IsFree(r) => s <= r

\* What a step did: the handler, its user and text argument, the outcome of
\* check_user_state, the access decision and its advisory, the message sent,
\* whether the invocation ended and whether it had set the busy flag.
Ev(op, u, arg, acq, access, advisory, reply, ended, set_busy) ==
    [ op |-> op, user |-> u, arg |-> arg, acq |-> acq, access |-> access,
      advisory |-> advisory, reply |-> reply, ended |-> ended, set_busy |-> set_busy,
      hints |-> None, text |-> "" ]

\* The same for a step of a request that goes through rei_call: the hints
\* given to rei_call and the text it returned to its caller, if it did.
EvCall(e, hints, text) == [e EXCEPT !.hints = hints, !.text = text]

\* get_fallback_response(asset, analysis_type): a static text composed from
\* its two arguments.
get_fallback_response(asset, analysis_type) ==
    IF asset = "" THEN "service issues, try again"
    ELSE IF analysis_type = "market" THEN "no market analysis for " \o asset
    ELSE IF analysis_type = "setup" THEN "no trade setup for " \o asset
    ELSE "no information about " \o asset

UsageOf(subs, u) == IF IsNone(subs[u]) THEN 0 ELSE Val(subs[u]).usage_count

\* ---------------------------------------------------------------- payments
ChargeIds == 1..MaxCharges

\* str(user_id) as create_payment_charge puts it in the charge metadata, and
\* int(user_id) as handle_webhook reads it back.
str(u) == CASE u = 1 -> "1" [] OTHER -> "0"
int(t) == CASE t = "1" -> 1 [] OTHER -> 0

\* hmac.new(key, msg, hashlib.sha256).hexdigest(): a digest that names its
\* key and its message, so that two digests agree only on equal inputs.
hmac_hexdigest(key, msg) == "hmac(" \o key \o "," \o msg \o ")"

\* ecliptica_bot.py never imports hmac: evaluating hmac.new raises NameError.
hmac_imported == FALSE

NoEvent == [ signature |-> "", payload |-> "", type |-> "", charge_id |-> None,
             user_id |-> "", plan_type |-> "" ]

WebhookSecrets == { "", "whsec" }
Payloads == { "payload" }
Signatures(payload) ==
    { "", hmac_hexdigest("whsec", payload), hmac_hexdigest("guess", payload) }
EventTypes == { "charge:confirmed", "charge:failed" }
Events ==
    { e \in [ signature : UNION { Signatures(p) : p \in Payloads }, payload : Payloads,
              type : EventTypes,
              charge_id : { None } \cup { Some(c) : c \in ChargeIds },
              user_id : { str(u) : u \in Users },
              plan_type : { "monthly", "annual" } ] :
        e.signature \in Signatures(e.payload) }

\* The charge id Coinbase gives to a new charge: one not used before.
HasFreshCharge == \E c \in ChargeIds : IsNone(payments[c])
FreshCharge == CHOOSE c \in ChargeIds :
                  IsNone(payments[c]) /\ \A d \in ChargeIds : IsNone(payments[d]) => c <= d

\* create_payment_charge: (success, charge_id) and the payments table
\* afterwards; charge_ok is whether client.charge.create returned a charge.
create_payment_charge(pays, u, plan_type, charge_id, charge_ok) ==
    IF plan_type \notin PlanNames \/ ~charge_ok
    THEN [ ok |-> FALSE, charge_id |-> None, payments |-> pays ]
    ELSE [ ok |-> TRUE, charge_id |-> Some(charge_id),
           payments |-> [pays EXCEPT ![charge_id] =
                            Some([ uid |-> u, plan_type |-> plan_type,
                                   status |-> "pending", completed_at |-> None ])] ]

\* Mutant: the confirmed charge's record is removed instead of updated.
complete_payment_deletes(pays, charge_id, t) ==
    IF charge_id \in ChargeIds THEN [pays EXCEPT ![charge_id] = None] ELSE pays

\* UPDATE payments SET status = 'completed', completed_at = NOW()
\* WHERE payment_id = $1
complete_payment(pays, charge_id, t) ==
    IF charge_id \in ChargeIds /\ ~IsNone(pays[charge_id])
    THEN [pays EXCEPT ![charge_id] =
             Some([Val(pays[charge_id]) EXCEPT !.status = "completed",
                                              !.completed_at = Some(t)])]
    ELSE pays

\* ------------------------------------------------------------------- Init
InitCommon ==
    /\ now = 0
    /\ ticks = 0
    /\ user_states = [u \in Users |-> None]
    /\ subscriptions = [u \in Users |-> None]
    /\ profile \in [Users -> { None, Some(StoredProfile) }]
    /\ conv = [u \in Users |-> "END"]
    /\ RESPONSE_CACHE = [k \in CacheKeys |-> None]
    /\ cached_for = [k \in CacheKeys |-> None]
    /\ token_lock = None
    /\ slots = [s \in Slots |-> FreeSlot]
    /\ acquired_at = [u \in Users |-> None]
    /\ ev = Ev("init", 0, "", "none", "n/a", "n/a", "none", FALSE, FALSE)
    /\ payments = [c \in ChargeIds |-> None]
    /\ last_event = NoEvent
    /\ user_data = [u \in Users |-> None]
    /\ setup_state = [u \in Users |-> "END"]
    /\ asked = [u \in Users |-> {}]
    /\ asset_entry = [u \in Users |-> FALSE]
    /\ ops = [o \in OpIds |-> IdleOp]
    /\ buttons = [u \in Users |-> {}]
    /\ auto_renew = [u \in Users |-> FALSE]
    /\ last_renewal_attempt = [u \in Users |-> None]
    /\ renewal_payment_id = [u \in Users |-> None]
    /\ renewal_subs = None
    /\ renewal_started_at = [u \in Users |-> None]
    /\ checks = 0

\* The bot as started without COINBASE_WEBHOOK_SECRET in its environment.
Init ==
    /\ InitCommon
    /\ COINBASE_WEBHOOK_SECRET = ""

\* ---------------------------------------------------------------- actions
Tick(d) ==
    /\ ticks < MaxTicks
    /\ InFlight = {}
    /\ now' = now + d
    /\ ticks' = ticks + 1
    /\ ev' = Ev("Tick", 0, "", "none", "n/a", "n/a", "none", FALSE, FALSE)
    /\ UNCHANGED << user_states, subscriptions, profile, conv, RESPONSE_CACHE, cached_for,
                    token_lock, slots, acquired_at >>
    /\ UNCHANGED pay_vars
    /\ UNCHANGED << setup_vars, asset_entry, ops, buttons, renew_vars >>

\* format_profile_context(profile): one context line per profile key,
\* 'unknown' for a key the profile lacks ('balanced' for verbosity).
format_profile_context(p) ==
    [ k \in QuestKeys |-> IF k \in DOMAIN p THEN p[k]
                          ELSE IF k = "verbosity" THEN "balanced" ELSE "unknown" ]

\* The prompt the analysis handlers and the suggestion branch hand to
\* rei_call: the request and the context of the profile read by
\* get_user_profile.
analysis_prompt(stored, asset, kind) ==
    [ asset |-> asset, kind |-> kind,
      context |-> format_profile_context(json_loads(Val(stored))) ]

ButtonData ==
    [ action : {"analysis"}, value : AnalysisTypes, asset : Assets ]
    \cup [ action : {"trade"}, value : {"SUGGEST", "CUSTOM"}, asset : {""} ]
    \cup [ action : {"trade"}, value : {"PERP"}, asset : Assets ]

\* Mutant: the usage counter is incremented for subscribers too.
analysis_gate_counts_subscribers(subs, u, t) ==
    LET access == check_subscription_access(subs, u, t)
    IN  IF ~access.has_access
        THEN [ granted |-> FALSE, access |-> "denied", message |-> access.message,
               subs |-> subs ]
        ELSE [ granted |-> TRUE,
               access |-> IF access.message = "" THEN "active" ELSE "free",
               message |-> access.message,
               subs |-> increment_usage_count(subs, u) ]

\* The part of handle_market_analysis / handle_trade_setup before the
\* completion call: the access decision and the usage increment.
analysis_gate(subs, u, t) ==
    LET access == check_subscription_access(subs, u, t)
        subscription == get_user_subscription(subs, u, t)
        counted == IsNone(subscription) \/ ~Val(subscription).is_active
    IN  IF ~access.has_access
        THEN [ granted |-> FALSE, access |-> "denied", message |-> access.message,
               subs |-> subs ]
        ELSE IF counted
        THEN [ granted |-> TRUE, access |-> "free", message |-> access.message,
               subs |-> increment_usage_count(subs, u) ]
        ELSE [ granted |-> TRUE, access |-> "active", message |-> access.message,
               subs |-> subs ]

\* button_click for callback data d of user u.
button_click(u, d) ==
    LET c == check_user_state(user_states, u, now)
        held == set_user_processing(c.us, u, TRUE, now)
        released == set_user_processing(held, u, FALSE, now)
        gate == analysis_gate(subscriptions, u, now)
        hints == IF d.action = "analysis" THEN Some(<< d.asset, d.value >>) ELSE None
        hit == cache_lookup(RESPONSE_CACHE, hints, now)
        calls == /\ c.ok /\ ~IsNone(profile[u])
                 /\ \/ d.action = "analysis" /\ gate.granted /\ IsNone(hit)
                    \/ d.action = "trade" /\ d.value = "SUGGEST"
        gated == c.ok /\ ~IsNone(profile[u]) /\ d.action = "analysis"
    IN
    /\ calls => HasFreeSlot
    /\ (gated /\ gate.access = "free") => UsageOf(subscriptions, u) < MaxUsage
    /\ IF ~c.ok
       THEN /\ user_states' = c.us
            /\ ev' = Ev("button_click", u, "", c.branch, "n/a", "n/a", "please_wait", TRUE, FALSE)
            /\ UNCHANGED << subscriptions, slots, acquired_at >>
       ELSE IF IsNone(profile[u])
       THEN /\ user_states' = released
            /\ acquired_at' = [acquired_at EXCEPT ![u] = None]
            /\ ev' = Ev("button_click", u, "", c.branch, "n/a", "n/a", "setup_first", TRUE, TRUE)
            /\ UNCHANGED << subscriptions, slots >>
       ELSE IF d.action = "analysis" /\ ~gate.granted
       THEN /\ user_states' = released
            /\ acquired_at' = [acquired_at EXCEPT ![u] = None]
            /\ ev' = EvCall(Ev("button_click", u, "", c.branch, "denied", gate.message,
                               "subscribe", TRUE, TRUE), hints, "")
            /\ UNCHANGED << subscriptions, slots >>
       ELSE IF d.action = "analysis" /\ ~IsNone(hit)
       THEN /\ user_states' = released
            /\ acquired_at' = [acquired_at EXCEPT ![u] = None]
            /\ subscriptions' = gate.subs
            /\ ev' = EvCall(Ev("button_click", u, "", c.branch, gate.access, gate.message,
                               "cached", TRUE, TRUE), hints, Val(hit))
            /\ UNCHANGED slots
       ELSE IF calls
       THEN /\ user_states' = held
            /\ acquired_at' = [acquired_at EXCEPT ![u] = Some(now)]
            /\ subscriptions' = IF d.action = "analysis" THEN gate.subs ELSE subscriptions
            /\ slots' = [slots EXCEPT ![NextSlot] =
                            [ kind |-> IF d.action = "analysis" THEN d.value ELSE "suggest",
                              user |-> u, hints |-> hints, pc |-> "primary",
                              retry_count |-> 0, guarded |-> TRUE,
                              prompt |-> Some(analysis_prompt(profile[u], d.asset,
                                              IF d.action = "analysis" THEN d.value
                                              ELSE "suggest")) ]]
            /\ ev' = EvCall(Ev("button_click", u, "", c.branch,
                               IF d.action = "analysis" THEN gate.access ELSE "n/a",
                               IF d.action = "analysis" THEN gate.message ELSE "n/a",
                               "waiting", FALSE, TRUE), hints, "")
       ELSE /\ user_states' = released
            /\ acquired_at' = [acquired_at EXCEPT ![u] = None]
            /\ ev' = Ev("button_click", u, "", c.branch, "n/a", "n/a",
                        IF d.value = "CUSTOM" THEN "enter_symbol" ELSE "choose_type",
                        TRUE, TRUE)
            /\ UNCHANGED << subscriptions, slots >>
    /\ asset_entry' = IF c.ok /\ ~IsNone(profile[u]) /\ d.action = "trade" /\ d.value = "CUSTOM"
                      THEN [asset_entry EXCEPT ![u] = TRUE]
                      ELSE asset_entry
    /\ buttons' = IF c.ok /\ IsNone(profile[u])
                  THEN [buttons EXCEPT ![u] = @ \cup { "setup:start" }]
                  ELSE buttons
    /\ UNCHANGED << now, ticks, profile, conv, RESPONSE_CACHE, cached_for, token_lock >>
    /\ UNCHANGED pay_vars
    /\ UNCHANGED << setup_vars, ops, renew_vars >>

\* Mutant: whatever text rei_call returns is stored under its hints, the
\* static fallback included.
finish_stores_any_text(s, reply, text, cache) ==
    LET r == slots[s] IN
    /\ RESPONSE_CACHE' = IF text = "" THEN cache ELSE cache_store(cache, r.hints, text, now)
    /\ cached_for' = IF text # "" /\ ~IsNone(r.hints)
                     THEN [cached_for EXCEPT ![Val(r.hints)] = r.prompt]
                     ELSE cached_for
    /\ slots' = [slots EXCEPT ![s] = FreeSlot]
    /\ user_states' = IF r.guarded
                      THEN set_user_processing(user_states, r.user, FALSE, now)
                      ELSE user_states
    /\ acquired_at' = IF r.guarded
                      THEN [acquired_at EXCEPT ![r.user] = None]
                      ELSE acquired_at
    /\ ev' = EvCall(Ev("rei_call", r.user, "", "none", "n/a", "n/a", reply, TRUE, r.guarded),
                    r.hints, text)

\* Mutant: the response is delivered and the busy flag stays set.
finish_keeps_busy(s, reply, text, cache) ==
    LET r == slots[s] IN
    /\ RESPONSE_CACHE' = cache
    /\ cached_for' = IF reply = "answer" /\ ~IsNone(r.hints)
                     THEN [cached_for EXCEPT ![Val(r.hints)] = r.prompt]
                     ELSE cached_for
    /\ slots' = [slots EXCEPT ![s] = FreeSlot]
    /\ user_states' = user_states
    /\ acquired_at' = acquired_at
    /\ ev' = EvCall(Ev("rei_call", r.user, "", "none", "n/a", "n/a", reply, TRUE, r.guarded),
                    r.hints, text)

\* End of a request that went through rei_call: the reply and, for a request
\* started by button_click, the release of the guard.
finish(s, reply, text, cache) ==
    LET r == slots[s] IN
    /\ RESPONSE_CACHE' = cache
    /\ cached_for' = IF reply = "answer" /\ ~IsNone(r.hints)
                     THEN [cached_for EXCEPT ![Val(r.hints)] = r.prompt]
                     ELSE cached_for
    /\ slots' = [slots EXCEPT ![s] = FreeSlot]
    /\ user_states' = IF r.guarded
                      THEN set_user_processing(user_states, r.user, FALSE, now)
                      ELSE user_states
    /\ acquired_at' = IF r.guarded
                      THEN [acquired_at EXCEPT ![r.user] = None]
                      ELSE acquired_at
    /\ ev' = EvCall(Ev("rei_call", r.user, "", "none", "n/a", "n/a", reply, TRUE, r.guarded),
                    r.hints, text)

CallOutcomes == { "ok", "timeout", "status5xx", "status401" }

\* The texts the two services return in these scenarios (content.strip()).
ServiceTexts == { "primary_text", "alt_text" }

\* Mutant: the retry loop allows two more attempts than max_retries + 1.
PrimaryReturn_retries_more(s, outcome) ==
    LET r == slots[s] IN
    /\ r.pc = "primary"
    /\ IF outcome = "ok"
       THEN finish(s, "answer", "primary_text",
                   cache_store(RESPONSE_CACHE, r.hints, "primary_text", now))
       ELSE /\ slots' = [slots EXCEPT ![s] =
                            IF r.retry_count + 1 <= max_retries + 2
                            THEN [r EXCEPT !.retry_count = @ + 1]
                            ELSE [r EXCEPT !.retry_count = @ + 1, !.pc = "alt"]]
            /\ ev' = EvCall(Ev("rei_call", r.user, outcome, "none", "n/a", "n/a", "none",
                               FALSE, r.guarded), r.hints, "")
            /\ UNCHANGED << RESPONSE_CACHE, cached_for, user_states, acquired_at >>
    /\ UNCHANGED << now, ticks, subscriptions, profile, conv, token_lock >>
    /\ UNCHANGED pay_vars
    /\ UNCHANGED << setup_vars, asset_entry, ops, buttons, renew_vars >>

\* One attempt of _rei_call_internal returns.
PrimaryReturn(s, outcome) ==
    LET r == slots[s] IN
    /\ r.pc = "primary"
    /\ IF outcome = "ok"
       THEN finish(s, "answer", "primary_text",
                   cache_store(RESPONSE_CACHE, r.hints, "primary_text", now))
       ELSE /\ slots' = [slots EXCEPT ![s] =
                            IF r.retry_count + 1 <= max_retries
                            THEN [r EXCEPT !.retry_count = @ + 1]
                            ELSE [r EXCEPT !.retry_count = @ + 1, !.pc = "alt"]]
            /\ ev' = EvCall(Ev("rei_call", r.user, outcome, "none", "n/a", "n/a", "none",
                               FALSE, r.guarded), r.hints, "")
            /\ UNCHANGED << RESPONSE_CACHE, cached_for, user_states, acquired_at >>
    /\ UNCHANGED << now, ticks, subscriptions, profile, conv, token_lock >>
    /\ UNCHANGED pay_vars
    /\ UNCHANGED << setup_vars, asset_entry, ops, buttons, renew_vars >>

\* Mutant: a failure of the alternate call reaches the caller of rei_call
\* whether or not asset_name is given.
AltReturn_raises(s, outcome) ==
    LET r == slots[s] IN
    /\ r.pc = "alt"
    /\ outcome \in { "ok", "status401" }
    /\ IF outcome = "ok"
       THEN finish(s, "answer", "alt_text",
                   cache_store(RESPONSE_CACHE, r.hints, "alt_text", now))
       ELSE finish(s, "none", "", RESPONSE_CACHE)
    /\ UNCHANGED << now, ticks, subscriptions, profile, conv, token_lock >>
    /\ UNCHANGED pay_vars
    /\ UNCHANGED << setup_vars, asset_entry, ops, buttons, renew_vars >>

\* rei_call_alternative returns; on failure the static fallback is used when
\* asset_name is given, otherwise the exception reaches the caller.
AltReturn(s, outcome) ==
    LET r == slots[s] IN
    /\ r.pc = "alt"
    /\ outcome \in { "ok", "status401" }
    /\ IF outcome = "ok"
       THEN finish(s, "answer", "alt_text",
                   cache_store(RESPONSE_CACHE, r.hints, "alt_text", now))
       ELSE finish(s, IF ~IsNone(r.hints) THEN "fallback"
                      ELSE IF r.kind = "suggest" THEN "fallback_generic"
                      ELSE "none",
                   IF ~IsNone(r.hints)
                   THEN get_fallback_response(Val(r.hints)[1], Val(r.hints)[2])
                   ELSE IF r.kind = "suggest" THEN get_fallback_response("", "")
                   ELSE "",
                   RESPONSE_CACHE)
    /\ UNCHANGED << now, ticks, subscriptions, profile, conv, token_lock >>
    /\ UNCHANGED pay_vars
    /\ UNCHANGED << setup_vars, asset_entry, ops, buttons, renew_vars >>

ask_cmd(u) ==
    /\ HasFreeSlot
    /\ slots' = [slots EXCEPT ![NextSlot] =
                    [ kind |-> "ask", user |-> u, hints |-> None, pc |-> "primary",
                      retry_count |-> 0, guarded |-> FALSE,
                      prompt |-> Some([ asset |-> "", kind |-> "ask",
                                        context |-> EmptyAns ]) ]]
    /\ ev' = Ev("ask_cmd", u, "", "none", "n/a", "n/a", "analyzing", FALSE, FALSE)
    /\ UNCHANGED << now, ticks, user_states, subscriptions, profile, conv,
                    RESPONSE_CACHE, cached_for, token_lock, acquired_at >>
    /\ UNCHANGED pay_vars
    /\ UNCHANGED << setup_vars, asset_entry, ops, buttons, renew_vars >>

\* The catch-all text handler; it is reached only by text that no
\* conversation handler takes.
handle_custom_asset(u, text, tg_ok) ==
    LET asset == upper(strip(text))
        perp == IF endswith_PERP(asset) THEN asset ELSE add_PERP(asset)
        c == check_user_state(user_states, u, now)
        held == set_user_processing(c.us, u, TRUE, now)
    IN
    /\ conv[u] # "ENTER_CODE"
    /\ IF ~c.ok
       THEN /\ user_states' = c.us
            /\ ev' = Ev("handle_custom_asset", u, "", c.branch, "n/a", "n/a",
                        IF tg_ok THEN "please_wait" ELSE "none", TRUE, FALSE)
            /\ UNCHANGED acquired_at
       ELSE IF HasSpecialKeyword(asset)
       THEN /\ user_states' = c.us
            /\ ev' = Ev("handle_custom_asset", u, "", c.branch, "n/a", "n/a", "none", TRUE, FALSE)
            /\ UNCHANGED acquired_at
       ELSE IF asset = ""
       THEN /\ user_states' = c.us
            /\ ev' = Ev("handle_custom_asset", u, "", c.branch, "n/a", "n/a",
                        IF tg_ok THEN "enter_valid" ELSE "none", TRUE, FALSE)
            /\ UNCHANGED acquired_at
       ELSE IF tg_ok
       THEN /\ user_states' = held
            /\ acquired_at' = [acquired_at EXCEPT ![u] = Some(now)]
            /\ ev' = Ev("handle_custom_asset", u, perp, c.branch, "n/a", "n/a", "choose_type",
                        TRUE, TRUE)
       ELSE /\ user_states' = set_user_processing(held, u, FALSE, now)
            /\ acquired_at' = [acquired_at EXCEPT ![u] = None]
            /\ ev' = Ev("handle_custom_asset", u, "", c.branch, "n/a", "n/a", "none", TRUE, TRUE)
    /\ asset_entry' = IF c.ok /\ ~HasSpecialKeyword(asset) /\ asset # ""
                      THEN [asset_entry EXCEPT ![u] = FALSE]
                      ELSE asset_entry
    /\ UNCHANGED << now, ticks, subscriptions, profile, conv, RESPONSE_CACHE, cached_for,
                    token_lock, slots >>
    /\ UNCHANGED pay_vars
    /\ UNCHANGED << setup_vars, ops, buttons, renew_vars >>

enter_code_cmd(u) ==
    /\ conv[u] = "END"
    /\ conv' = [conv EXCEPT ![u] = "ENTER_CODE"]
    /\ ev' = Ev("enter_code_cmd", u, "", "none", "n/a", "n/a", "enter_code", TRUE, FALSE)
    /\ UNCHANGED << now, ticks, user_states, subscriptions, profile, RESPONSE_CACHE, cached_for,
                    token_lock, slots, acquired_at >>
    /\ UNCHANGED pay_vars
    /\ UNCHANGED << setup_vars, asset_entry, ops, buttons, renew_vars >>

\* cancel, the fallback of every conversation: /cancel goes to the first
\* conversation in registration order that is active, the setup wizard first.
cancel(u) ==
    /\ setup_state[u] = "SETUP" \/ conv[u] = "ENTER_CODE"
    /\ IF setup_state[u] = "SETUP"
       THEN /\ setup_state' = [setup_state EXCEPT ![u] = "END"]
            /\ UNCHANGED conv
       ELSE /\ conv' = [conv EXCEPT ![u] = "END"]
            /\ UNCHANGED setup_state
    /\ ev' = Ev("cancel", u, "", "none", "n/a", "n/a", "cancelled", TRUE, FALSE)
    /\ UNCHANGED << now, ticks, user_states, subscriptions, profile, RESPONSE_CACHE, cached_for,
                    token_lock, slots, acquired_at >>
    /\ UNCHANGED pay_vars
    /\ UNCHANGED << user_data, asked, asset_entry, ops, buttons, renew_vars >>

\* setup_start, the entry point of the setup conversation, followed by
\* ask_next for the first question.
setup_start(u) ==
    /\ setup_state[u] = "END"
    /\ user_data' = [user_data EXCEPT ![u] = Some([ i |-> 0, ans |-> EmptyAns ])]
    /\ asked' = [asked EXCEPT ![u] = @ \cup { Quests[1] }]
    /\ setup_state' = [setup_state EXCEPT ![u] = "SETUP"]
    /\ ev' = Ev("setup_start", u, Quests[1], "none", "n/a", "n/a", "question", FALSE, FALSE)
    /\ UNCHANGED << now, ticks, user_states, subscriptions, profile, conv, RESPONSE_CACHE, cached_for,
                    token_lock, slots, acquired_at, asset_entry, ops, buttons, renew_vars >>
    /\ UNCHANGED pay_vars

\* Mutant: the profile is saved from the answers held before the last one.
handle_setup_saves_stale(u, data, save_ok, tg_ok) ==
    LET sess == Val(user_data[u])
        key == data[2]
        value == data[3]
        ans == SetAns(sess.ans, key, value)
        i == sess.i + 1
    IN
    /\ setup_state[u] = "SETUP"
    /\ data \in SetupPayloads(asked[u])
    /\ tg_ok \/ Len(data) # 3 \/ sess.i <= len_QUESTS
    /\ IF ~tg_ok
       THEN /\ user_data' = IF Len(data) # 3 THEN user_data
                            ELSE [user_data EXCEPT ![u] = Some([ i |-> i, ans |-> ans ])]
            /\ ev' = Ev("handle_setup", u, IF Len(data) # 3 THEN "" ELSE key,
                        "none", "n/a", "n/a", "error", FALSE, FALSE)
            /\ UNCHANGED << setup_state, asked, profile >>
       ELSE IF Len(data) # 3
       THEN /\ ev' = Ev("handle_setup", u, "", "none", "n/a", "n/a", "invalid_format",
                        FALSE, FALSE)
            /\ UNCHANGED << user_data, setup_state, asked, profile >>
       ELSE /\ user_data' = [user_data EXCEPT ![u] = Some([ i |-> i, ans |-> ans ])]
            /\ IF i >= len_QUESTS
               THEN /\ profile' = IF save_ok
                                  THEN [profile EXCEPT ![u] = Some(json_dumps(sess.ans))]
                                  ELSE profile
                    /\ setup_state' = [setup_state EXCEPT ![u] = "END"]
                    /\ ev' = Ev("handle_setup", u, key, "none", "n/a", "n/a",
                                IF save_ok THEN "profile_saved" ELSE "save_failed",
                                TRUE, FALSE)
                    /\ UNCHANGED asked
               ELSE /\ asked' = [asked EXCEPT ![u] = @ \cup { Quests[i + 1] }]
                    /\ ev' = Ev("handle_setup", u, key, "none", "n/a", "n/a", "question",
                                FALSE, FALSE)
                    /\ UNCHANGED << setup_state, profile >>
    /\ UNCHANGED << now, ticks, user_states, subscriptions, conv, RESPONSE_CACHE, cached_for,
                    token_lock, slots, acquired_at, asset_entry, ops, buttons, renew_vars >>
    /\ UNCHANGED pay_vars

\* Mutant: a callback whose data is not setup:key:value ends the wizard.
handle_setup_ends_on_malformed(u, data, save_ok, tg_ok) ==
    LET sess == Val(user_data[u])
        key == data[2]
        value == data[3]
        ans == SetAns(sess.ans, key, value)
        i == sess.i + 1
    IN
    /\ setup_state[u] = "SETUP"
    /\ data \in SetupPayloads(asked[u])
    /\ tg_ok \/ Len(data) # 3 \/ sess.i <= len_QUESTS
    /\ IF ~tg_ok
       THEN /\ user_data' = IF Len(data) # 3 THEN user_data
                            ELSE [user_data EXCEPT ![u] = Some([ i |-> i, ans |-> ans ])]
            /\ ev' = Ev("handle_setup", u, IF Len(data) # 3 THEN "" ELSE key,
                        "none", "n/a", "n/a", "error", FALSE, FALSE)
            /\ UNCHANGED << setup_state, asked, profile >>
       ELSE IF Len(data) # 3
       THEN /\ ev' = Ev("handle_setup", u, "", "none", "n/a", "n/a", "invalid_format",
                        FALSE, FALSE)
            /\ setup_state' = [setup_state EXCEPT ![u] = "END"]
            /\ UNCHANGED << user_data, asked, profile >>
       ELSE /\ user_data' = [user_data EXCEPT ![u] = Some([ i |-> i, ans |-> ans ])]
            /\ IF i >= len_QUESTS
               THEN /\ profile' = IF save_ok
                                  THEN [profile EXCEPT ![u] = Some(json_dumps(ans))]
                                  ELSE profile
                    /\ setup_state' = [setup_state EXCEPT ![u] = "END"]
                    /\ ev' = Ev("handle_setup", u, key, "none", "n/a", "n/a",
                                IF save_ok THEN "profile_saved" ELSE "save_failed",
                                TRUE, FALSE)
                    /\ UNCHANGED asked
               ELSE /\ asked' = [asked EXCEPT ![u] = @ \cup { Quests[i + 1] }]
                    /\ ev' = Ev("handle_setup", u, key, "none", "n/a", "n/a", "question",
                                FALSE, FALSE)
                    /\ UNCHANGED << setup_state, profile >>
    /\ UNCHANGED << now, ticks, user_states, subscriptions, conv, RESPONSE_CACHE, cached_for,
                    token_lock, slots, acquired_at, asset_entry, ops, buttons, renew_vars >>
    /\ UNCHANGED pay_vars

\* handle_setup in state SETUP for the callback whose data splits into
\* `data`, the data of a button that is in the chat; save_ok is whether
\* save_user_profile succeeds, tg_ok whether query.answer does.  When
\* query.answer raises, the except clause returns SETUP: after the answer
\* was stored and the index incremented if the data had three parts.
handle_setup(u, data, save_ok, tg_ok) ==
    LET sess == Val(user_data[u])
        key == data[2]
        value == data[3]
        ans == SetAns(sess.ans, key, value)
        i == sess.i + 1
    IN
    /\ setup_state[u] = "SETUP"
    /\ data \in SetupPayloads(asked[u])
    /\ tg_ok \/ Len(data) # 3 \/ sess.i <= len_QUESTS
    /\ IF ~tg_ok
       THEN /\ user_data' = IF Len(data) # 3 THEN user_data
                            ELSE [user_data EXCEPT ![u] = Some([ i |-> i, ans |-> ans ])]
            /\ ev' = Ev("handle_setup", u, IF Len(data) # 3 THEN "" ELSE key,
                        "none", "n/a", "n/a", "error", FALSE, FALSE)
            /\ UNCHANGED << setup_state, asked, profile >>
       ELSE IF Len(data) # 3
       THEN /\ ev' = Ev("handle_setup", u, "", "none", "n/a", "n/a", "invalid_format",
                        FALSE, FALSE)
            /\ UNCHANGED << user_data, setup_state, asked, profile >>
       ELSE /\ user_data' = [user_data EXCEPT ![u] = Some([ i |-> i, ans |-> ans ])]
            /\ IF i >= len_QUESTS
               THEN /\ profile' = IF save_ok
                                  THEN [profile EXCEPT ![u] = Some(json_dumps(ans))]
                                  ELSE profile
                    /\ setup_state' = [setup_state EXCEPT ![u] = "END"]
                    /\ ev' = Ev("handle_setup", u, key, "none", "n/a", "n/a",
                                IF save_ok THEN "profile_saved" ELSE "save_failed",
                                TRUE, FALSE)
                    /\ UNCHANGED asked
               ELSE /\ asked' = [asked EXCEPT ![u] = @ \cup { Quests[i + 1] }]
                    /\ ev' = Ev("handle_setup", u, key, "none", "n/a", "n/a", "question",
                                FALSE, FALSE)
                    /\ UNCHANGED << setup_state, profile >>
    /\ UNCHANGED << now, ticks, user_states, subscriptions, conv, RESPONSE_CACHE, cached_for,
                    token_lock, slots, acquired_at, asset_entry, ops, buttons, renew_vars >>
    /\ UNCHANGED pay_vars

\* trade_start: the profile check and the first menu of the trade flow.
trade_start(u) ==
    /\ ev' = Ev("trade_start", u, "", "none", "n/a", "n/a",
                IF IsNone(profile[u]) THEN "setup_first" ELSE "choose_option", TRUE, FALSE)
    /\ buttons' = IF IsNone(profile[u])
                  THEN [buttons EXCEPT ![u] = @ \cup { "setup:start" }]
                  ELSE buttons
    /\ UNCHANGED << now, ticks, user_states, subscriptions, profile, conv, RESPONSE_CACHE, cached_for,
                    token_lock, slots, acquired_at >>
    /\ UNCHANGED pay_vars
    /\ UNCHANGED << setup_vars, asset_entry, ops, renew_vars >>

\* A press of the "Setup Profile Now" button while the setup conversation
\* is idle.  The callback data setup:start matches no registered handler:
\* the wizard's entry points are /setup and the menu text, its ^setup:
\* handler belongs to state SETUP, button_click is registered for
\* ^(trade|analysis): and handle_subscription_callback for ^sub:.  The
\* update is dropped.  (In state SETUP the press goes to handle_setup.)
setup_start_button(u) ==
    /\ "setup:start" \in buttons[u]
    /\ setup_state[u] = "END"
    /\ ev' = Ev("setup_start_button", u, "setup:start", "none", "n/a", "n/a", "none",
                TRUE, FALSE)
    /\ UNCHANGED << now, ticks, user_states, subscriptions, profile, conv, RESPONSE_CACHE, cached_for,
                    token_lock, slots, acquired_at >>
    /\ UNCHANGED pay_vars
    /\ UNCHANGED << setup_vars, asset_entry, ops, buttons, renew_vars >>

handle_code_entry(u, text) ==
    LET code == upper(strip(text))
        made == create_subscription(subscriptions, u, None, None, Some(code), now)
    IN
    /\ conv[u] = "ENTER_CODE"
    /\ IF verify_promo_code(code)
       THEN /\ subscriptions' = made.subs
            /\ ev' = Ev("handle_code_entry", u, text, "none", "n/a", "n/a",
                        IF made.ok THEN "promo_activated" ELSE "promo_error", TRUE, FALSE)
       ELSE /\ ev' = Ev("handle_code_entry", u, text, "none", "n/a", "n/a", "invalid_code",
                        TRUE, FALSE)
            /\ UNCHANGED subscriptions
    /\ conv' = [conv EXCEPT ![u] = "END"]
    /\ UNCHANGED << now, ticks, user_states, profile, RESPONSE_CACHE, cached_for, token_lock,
                    slots, acquired_at >>
    /\ UNCHANGED pay_vars
    /\ UNCHANGED << setup_vars, asset_entry, ops, buttons, renew_vars >>

\* The cancel_subscription callback of subscription_handlers.py.
cancel_subscription(u) ==
    /\ subscriptions' =
          IF ~IsNone(subscriptions[u]) /\ Val(subscriptions[u]).status = "active"
          THEN [subscriptions EXCEPT ![u] = Some([Val(subscriptions[u]) EXCEPT
                                                     !.status = "cancelled"])]
          ELSE subscriptions
    /\ auto_renew' =
          IF ~IsNone(subscriptions[u]) /\ Val(subscriptions[u]).status = "active"
          THEN [auto_renew EXCEPT ![u] = FALSE]
          ELSE auto_renew
    /\ ev' = Ev("cancel_subscription", u, "", "none", "n/a", "n/a", "sub_cancelled", TRUE, FALSE)
    /\ UNCHANGED << now, ticks, user_states, profile, conv, RESPONSE_CACHE, cached_for, token_lock,
                    slots, acquired_at >>
    /\ UNCHANGED pay_vars
    /\ UNCHANGED << setup_vars, asset_entry, ops, buttons >>
    /\ UNCHANGED << last_renewal_attempt, renewal_payment_id, renewal_subs,
                    renewal_started_at, checks >>

\* The data of a sub: callback after the prefix.
SubActions == { "select:monthly", "select:lifetime", "promo", "extend", "cancel" }

startswith_select(a) == a \in { "select:monthly", "select:annual", "select:lifetime" }

plan_after_select(a) ==
    CASE a = "select:monthly" -> "monthly"
      [] a = "select:annual" -> "annual"
      [] a = "select:lifetime" -> "lifetime"
      [] OTHER -> ""

\* Mutant: selecting a plan activates it at once, without a payment.
handle_subscription_callback_activates(u, action, charge_ok) ==
    LET plan_id == plan_after_select(action)
        made == create_subscription(subscriptions, u, Some(plan_id), None, None, now)
    IN
    /\ startswith_select(action)
    /\ subscriptions' = made.subs
    /\ ev' = Ev("handle_subscription_callback", u, action, "none", "n/a", "n/a",
                IF made.ok THEN "pay_now" ELSE "invalid_plan", TRUE, FALSE)
    /\ UNCHANGED << now, ticks, user_states, profile, conv, RESPONSE_CACHE, cached_for, token_lock,
                    slots, acquired_at, pay_vars >>
    /\ UNCHANGED << setup_vars, asset_entry, ops, buttons, renew_vars >>

\* handle_subscription_callback for the callback data "sub:" + action.
handle_subscription_callback(u, action, charge_ok) ==
    LET plan_id == plan_after_select(action)
        made == create_payment_charge(payments, u, plan_id, FreshCharge, charge_ok)
    IN
    /\ (startswith_select(action) /\ plan_id \in PlanNames /\ charge_ok) => HasFreshCharge
    /\ IF startswith_select(action)
       THEN IF plan_id \notin PlanNames
            THEN /\ ev' = Ev("handle_subscription_callback", u, action, "none", "n/a", "n/a",
                             "invalid_plan", TRUE, FALSE)
                 /\ UNCHANGED payments
            ELSE /\ payments' = made.payments
                 /\ ev' = Ev("handle_subscription_callback", u, action, "none", "n/a", "n/a",
                             IF made.ok THEN "pay_now" ELSE "payment_error", TRUE, FALSE)
       ELSE /\ ev' = Ev("handle_subscription_callback", u, action, "none", "n/a", "n/a",
                        CASE action = "promo" -> "enter_promo"
                          [] action = "extend" -> "choose_plan"
                          [] action = "cancel" -> "process_cancelled"
                          [] OTHER -> "invalid_option",
                        TRUE, FALSE)
            /\ UNCHANGED payments
    /\ conv' = [conv EXCEPT ![u] = CASE action = "promo" -> "ENTER_CODE"
                                     [] action = "extend" -> "SUBSCRIPTION"
                                     [] OTHER -> "END"]
    /\ UNCHANGED << now, ticks, user_states, subscriptions, profile, RESPONSE_CACHE, cached_for,
                    token_lock, slots, acquired_at, COINBASE_WEBHOOK_SECRET, last_event >>
    /\ UNCHANGED << setup_vars, asset_entry, ops, buttons, renew_vars >>

\* handle_webhook of ecliptica_bot.py for the event e.
handle_webhook(e) ==
    LET raises == COINBASE_WEBHOOK_SECRET # "" /\ ~hmac_imported
        expected_sig == hmac_hexdigest(COINBASE_WEBHOOK_SECRET, e.payload)
        rejected == COINBASE_WEBHOOK_SECRET # "" /\ hmac_imported
                    /\ e.signature # expected_sig
        ignored == e.type # "charge:confirmed"
        missing == IsNone(e.charge_id) \/ e.user_id = "" \/ e.plan_type = ""
        proceed == ~raises /\ ~rejected /\ ~ignored /\ ~missing
        made == create_subscription(subscriptions, int(e.user_id), Some(e.plan_type),
                                    e.charge_id, None, now)
    IN
    /\ last_event' = e
    /\ IF proceed
       THEN /\ payments' = complete_payment(payments, Val(e.charge_id), now)
            /\ subscriptions' = made.subs
            /\ ev' = Ev("handle_webhook", int(e.user_id), e.type, "none", "n/a", "n/a",
                        "payment_confirmed", TRUE, FALSE)
       ELSE /\ ev' = Ev("handle_webhook", int(e.user_id), e.type, "none", "n/a", "n/a",
                        "none", TRUE, FALSE)
            /\ UNCHANGED << payments, subscriptions >>
    /\ UNCHANGED << now, ticks, user_states, profile, conv, RESPONSE_CACHE, cached_for, token_lock,
                    slots, acquired_at, COINBASE_WEBHOOK_SECRET >>
    /\ UNCHANGED << setup_vars, asset_entry, ops, buttons, renew_vars >>

\* Inputs of the guard scenarios: every button and free text; the clock
\* moves around the failsafe window.
GuardTicks == { FAILSAFE_SECONDS, FAILSAFE_SECONDS + 1 }
GuardTexts == { "btc", "ETH-PERP", " ", "trade btc" }

NextGuard ==
    \/ \E d \in GuardTicks : Tick(d)
    \/ \E u \in Users, d \in ButtonData : button_click(u, d)
    \/ \E s \in Slots, o \in CallOutcomes : PrimaryReturn(s, o)
    \/ \E s \in Slots, o \in CallOutcomes : AltReturn(s, o)
    \/ \E u \in Users, t \in GuardTexts : handle_custom_asset(u, t, TRUE)
    \/ \E u \in Users, t \in GuardTexts : handle_custom_asset(u, t, FALSE)

SpecGuard == Init /\ [][NextGuard]_vars

\* Inputs of the access scenarios: analysis buttons, promo codes,
\* cancellation; the clock moves past the end of a 30-day grant.
AccessTicks == { PROMO_CODES["ECLIPTICA2024"] * SECONDS_PER_DAY }
AccessButtons == { d \in ButtonData : d.action = "analysis" }
CodeTexts == { "ecliptica2024", "PERPSMASTER", "FREE4EVER" }

NextAccess ==
    \/ \E d \in AccessTicks : Tick(d)
    \/ \E u \in Users, d \in AccessButtons : button_click(u, d)
    \/ \E s \in Slots, o \in CallOutcomes : PrimaryReturn(s, o)
    \/ \E s \in Slots, o \in CallOutcomes : AltReturn(s, o)
    \/ \E u \in Users : enter_code_cmd(u)
    \/ \E u \in Users : cancel(u)
    \/ \E u \in Users, t \in CodeTexts : handle_code_entry(u, t)
    \/ \E u \in Users : cancel_subscription(u)

SpecAccess == Init /\ [][NextAccess]_vars

\* Inputs of the gateway scenarios: /ask, which takes no guard, next to the
\* buttons; requests overlap at the completion call.
NextGateway ==
    \/ \E u \in Users : ask_cmd(u)
    \/ \E u \in Users, d \in ButtonData : button_click(u, d)
    \/ \E s \in Slots, o \in CallOutcomes : PrimaryReturn(s, o)
    \/ \E s \in Slots, o \in CallOutcomes : AltReturn(s, o)

SpecGateway == Init /\ [][NextGateway]_vars

\* Inputs of the cache scenarios: analysis buttons and the service's
\* outcomes; the clock moves to just before and exactly to the end of the
\* cache's time to live.
CacheTicks == { MAX_CACHE_AGE - 1, MAX_CACHE_AGE }

NextCache ==
    \/ \E d \in CacheTicks : Tick(d)
    \/ \E u \in Users, d \in AccessButtons : button_click(u, d)
    \/ \E s \in Slots, o \in CallOutcomes : PrimaryReturn(s, o)
    \/ \E s \in Slots, o \in CallOutcomes : AltReturn(s, o)

SpecCache == Init /\ [][NextCache]_vars

\* The same scenarios with every service call returning: both HTTP calls are
\* made with a timeout, so an attempt in progress ends with a response, an
\* error or asyncio.TimeoutError.
FairCache ==
    /\ SpecCache
    /\ \A s \in Slots : WF_vars(\E o \in CallOutcomes : PrimaryReturn(s, o))
    /\ \A s \in Slots : WF_vars(\E o \in CallOutcomes : AltReturn(s, o))

\* Inputs of the setup scenarios: the wizard's entry, every answer button
\* that is in the chat, the "Setup Profile Now" button, /cancel, and a
\* database that may fail to save.
NextSetup ==
    \/ \E u \in Users : setup_start(u)
    \/ \E u \in Users, data \in SetupPayloads(QuestKeys) : handle_setup(u, data, TRUE, TRUE)
    \/ \E u \in Users, data \in SetupPayloads(QuestKeys) : handle_setup(u, data, FALSE, TRUE)
    \/ \E u \in Users : cancel(u)
    \/ \E u \in Users : trade_start(u)

SpecSetup == Init /\ [][NextSetup]_vars

\* Inputs of the wizard scenarios: the same entry points with one option
\* per question, the "Setup Profile Now" button pressed outside the
\* wizard, and a Telegram call that may fail while an answer is handled.
WizardPayloads ==
    { << "setup", k, CHOOSE v \in OPTIONS[k] : TRUE >> : k \in QuestKeys }
    \cup { << "setup", "start" >> }

NextWizard ==
    \/ \E u \in Users : setup_start(u)
    \/ \E u \in Users, data \in WizardPayloads : handle_setup(u, data, TRUE, TRUE)
    \/ \E u \in Users, data \in WizardPayloads : handle_setup(u, data, TRUE, FALSE)
    \/ \E u \in Users : cancel(u)
    \/ \E u \in Users : trade_start(u)
    \/ \E u \in Users : setup_start_button(u)

SpecWizard == Init /\ [][NextWizard]_vars

\* Inputs of the shared-cache scenarios: market analysis requests that the
\* service answers at the first attempt, and a rerun of the wizard that
\* stores a profile different from the one the bot started with.
OtherOption(k) == CHOOSE v \in OPTIONS[k] : v # (CHOOSE w \in OPTIONS[k] : TRUE)
RerunPayloads == { << "setup", k, OtherOption(k) >> : k \in QuestKeys }

SharedButtons == { d \in AccessButtons : d.value = "market" }

NextShared ==
    \/ \E u \in Users, d \in SharedButtons : button_click(u, d)
    \/ \E s \in Slots : PrimaryReturn(s, "ok")
    \/ \E u \in Users : setup_start(u)
    \/ \E u \in Users, data \in RerunPayloads : handle_setup(u, data, TRUE, TRUE)

SpecShared == Init /\ [][NextShared]_vars

\* ------------------------------------------------ subscription_handlers.py
\* PROMO_CODES of subscription_handlers.py: days of access per code.
sh_PROMO_CODES == [ECLIPTICA2024 |-> 30, PERPSMASTER |-> 90]

\* What the handlers of subscription_handlers.py leave alone.
sh_unchanged ==
    UNCHANGED << ticks, user_states, profile, conv, RESPONSE_CACHE, cached_for,
                 token_lock, slots, acquired_at, COINBASE_WEBHOOK_SECRET, last_event,
                 setup_vars, asset_entry, ops >>

\* get_user_subscription of subscription_handlers.py: None, or the row with
\* is_active and days_remaining; the SELECT does not read auto_renew. A row
\* without end_date makes the comparison raise, which returns None.
sh_get_user_subscription(subs, u, t) ==
    IF IsNone(subs[u]) \/ IsNone(Val(subs[u]).end_date) THEN None
    ELSE LET row == Val(subs[u])
             is_active == Val(row.end_date) > t /\ row.status = "active"
         IN  Some([ promo_code |-> row.promo_code, is_active |-> is_active,
                    days_remaining |-> IF is_active
                                       THEN (Val(row.end_date) - t) \div SECONDS_PER_DAY
                                       ELSE 0 ])

\* create_subscription of subscription_handlers.py: whether it succeeded,
\* the table afterwards and the auto_renew it stored.
sh_create_subscription(subs, u, plan_type, payment_id, promo_code, auto, t) ==
    LET paid == ~IsNone(plan_type) /\ Val(plan_type) \in PlanNames
        promo == ~paid /\ ~IsNone(promo_code)
                       /\ Val(promo_code) \in DOMAIN sh_PROMO_CODES
        days == IF paid THEN SUBSCRIPTION_PLANS[Val(plan_type)]
                ELSE sh_PROMO_CODES[Val(promo_code)]
        row == [ plan_type |-> IF paid THEN plan_type ELSE Some("promo"),
                 start_date |-> Some(t),
                 end_date |-> Some(t + days * SECONDS_PER_DAY),
                 payment_id |-> payment_id, status |-> "active",
                 usage_count |-> IF IsNone(subs[u]) THEN 0 ELSE Val(subs[u]).usage_count,
                 promo_code |-> promo_code ]
    IN  IF ~(paid \/ promo)
        THEN [ ok |-> FALSE, subs |-> subs, auto_renew |-> FALSE ]
        ELSE [ ok |-> TRUE, subs |-> [subs EXCEPT ![u] = Some(row)],
               auto_renew |-> IF paid THEN auto ELSE FALSE ]

\* The writes of one create_subscription call c for user u: the UPDATE and
\* the INSERT both leave last_renewal_attempt and renewal_payment_id NULL.
sh_created(u, c) ==
    /\ subscriptions' = c.subs
    /\ auto_renew' = IF c.ok THEN [auto_renew EXCEPT ![u] = c.auto_renew] ELSE auto_renew
    /\ last_renewal_attempt' =
          IF c.ok THEN [last_renewal_attempt EXCEPT ![u] = None] ELSE last_renewal_attempt
    /\ renewal_payment_id' =
          IF c.ok THEN [renewal_payment_id EXCEPT ![u] = None] ELSE renewal_payment_id

\* handle_code_entry of subscription_handlers.py.
sh_handle_code_entry(u, text) ==
    LET code == upper(strip(text))
        c == sh_create_subscription(subscriptions, u, None, None, Some(code), FALSE, now)
    IN  /\ IF code \in DOMAIN sh_PROMO_CODES
           THEN /\ sh_created(u, c)
                /\ ev' = Ev("sh_handle_code_entry", u, text, "none", "n/a", "n/a",
                            IF c.ok THEN "promo_activated" ELSE "promo_error", TRUE, FALSE)
           ELSE /\ ev' = Ev("sh_handle_code_entry", u, text, "none", "n/a", "n/a",
                            "invalid_code", TRUE, FALSE)
                /\ UNCHANGED << subscriptions, auto_renew, last_renewal_attempt,
                                renewal_payment_id >>
        /\ UNCHANGED << now, payments, buttons, renewal_subs, renewal_started_at, checks >>
        /\ sh_unchanged

\* handle_webhook of subscription_handlers.py for a charge:confirmed event
\* that passed the signature check: the payment is completed and the
\* subscription created, with auto_renew when the charge was a renewal.
sh_handle_webhook(u, charge_id, plan_type, is_renewal) ==
    LET c == sh_create_subscription(subscriptions, u, Some(plan_type), Some(charge_id),
                                    None, is_renewal, now)
    IN  /\ payments' = complete_payment(payments, charge_id, now)
        /\ sh_created(u, c)
        /\ ev' = Ev("sh_handle_webhook", u, plan_type, "none", "n/a", "n/a",
                    IF c.ok THEN "payment_confirmed" ELSE "error", TRUE, FALSE)
        /\ UNCHANGED << now, buttons, renewal_subs, renewal_started_at, checks >>
        /\ sh_unchanged

\* manage_subscription_cmd sent as a command: the buttons it renders. The
\* subscription it reads has no auto_renew key, so the toggle it offers is
\* always the enabling one, and only when the row has no promo code.
manage_subscription_cmd(u) ==
    LET sub == sh_get_user_subscription(subscriptions, u, now)
        managed == ~IsNone(sub) /\ Val(sub).is_active
        rendered == ( IF IsNone(Val(sub).promo_code)
                      THEN { "sub:auto_renew:on" } ELSE {} )
                    \cup ( IF Val(sub).days_remaining < 14
                           THEN { "sub:renew_now" } ELSE {} )
                    \cup { "sub:cancel_subscription" }
    IN  /\ buttons' = IF managed THEN [buttons EXCEPT ![u] = @ \cup rendered] ELSE buttons
        /\ ev' = Ev("manage_subscription_cmd", u, "", "none", "n/a", "n/a",
                    IF managed THEN "subscription_management" ELSE "no_active_subscription",
                    TRUE, FALSE)
        /\ UNCHANGED << now, subscriptions, payments, renew_vars >>
        /\ sh_unchanged

\* The auto_renew action of handle_subscription_callback, for a button
\* that is in the chat: the UPDATE looks at the status only. The call of
\* manage_subscription_cmd that follows has no message to reply to, so
\* for a managed subscription it raises and nothing is rendered.
sub_auto_renew(u, data) ==
    LET enable == data = "sub:auto_renew:on"
        row_active == ~IsNone(subscriptions[u]) /\ Val(subscriptions[u]).status = "active"
    IN  /\ data \in buttons[u] \cap { "sub:auto_renew:on", "sub:auto_renew:off" }
        /\ auto_renew' = IF row_active THEN [auto_renew EXCEPT ![u] = enable] ELSE auto_renew
        /\ ev' = Ev("sub_auto_renew", u, data, "none", "n/a", "n/a", "error", FALSE, FALSE)
        /\ UNCHANGED << now, subscriptions, payments, buttons, last_renewal_attempt,
                        renewal_payment_id, renewal_subs, renewal_started_at, checks >>
        /\ sh_unchanged

\* toggle_auto_renewal: refuses to enable a promo subscription's renewal.
toggle_auto_renewal(u) ==
    LET found == ~IsNone(subscriptions[u]) /\ Val(subscriptions[u]).status = "active"
        refused == found /\ Val(subscriptions[u]).plan_type = Some("promo")
                         /\ ~auto_renew[u]
    IN  /\ auto_renew' = IF found /\ ~refused
                         THEN [auto_renew EXCEPT ![u] = ~auto_renew[u]] ELSE auto_renew
        /\ ev' = Ev("toggle_auto_renewal", u, "", "none", "n/a", "n/a",
                    IF ~found THEN "no_active_subscription"
                    ELSE IF refused THEN "promo_cannot_renew"
                    ELSE IF ~auto_renew[u] THEN "auto_renew_enabled"
                    ELSE "auto_renew_disabled", TRUE, FALSE)
        /\ UNCHANGED << now, subscriptions, payments, buttons, last_renewal_attempt,
                        renewal_payment_id, renewal_subs, renewal_started_at, checks >>
        /\ sh_unchanged

\* The rows the renewal query of check_expiring_subscriptions selects at t.
renewal_query(subs, t) ==
    { [ uid |-> u, plan_type |-> Val(Val(subs[u]).plan_type) ] :
        u \in { v \in Users :
                  /\ ~IsNone(subs[v])
                  /\ Val(subs[v]).status = "active"
                  /\ auto_renew[v]
                  /\ ~IsNone(Val(subs[v]).end_date)
                  /\ Val(Val(subs[v]).end_date) < t + 3 * SECONDS_PER_DAY
                  /\ ( IsNone(last_renewal_attempt[v])
                       \/ Val(last_renewal_attempt[v]) < t - SECONDS_PER_DAY )
                  /\ ~IsNone(Val(subs[v]).plan_type)
                  /\ Val(subs[v]).plan_type # Some("promo") } }

\* check_expiring_subscriptions up to its renewal query: the scheduler's
\* loop runs it when its sleep is over.
check_expiring_subscriptions ==
    /\ IsNone(renewal_subs)
    /\ checks < MaxChecks
    /\ renewal_subs' = Some(renewal_query(subscriptions, now))
    /\ ev' = Ev("check_expiring_subscriptions", 0, "", "none", "n/a", "n/a", "none",
                FALSE, FALSE)
    /\ UNCHANGED << now, subscriptions, payments, buttons, auto_renew, last_renewal_attempt,
                    renewal_payment_id, renewal_started_at, checks >>
    /\ sh_unchanged

\* process_subscription_renewal for one selected row: the attempt is stamped
\* on the user's row whatever the row is by now, then the renewal charge is
\* created for the selected plan and stored.
process_subscription_renewal(sub, charge_ok) ==
    LET u == sub.uid
        made == create_payment_charge(payments, u, sub.plan_type,
                                      IF HasFreshCharge THEN FreshCharge ELSE 0,
                                      charge_ok /\ HasFreshCharge)
        has_row == ~IsNone(subscriptions[u])
    IN  /\ ~IsNone(renewal_subs)
        /\ sub \in Val(renewal_subs)
        /\ last_renewal_attempt' = IF has_row
                                   THEN [last_renewal_attempt EXCEPT ![u] = Some(now)]
                                   ELSE last_renewal_attempt
        /\ payments' = made.payments
        /\ renewal_payment_id' = IF made.ok /\ has_row
                                 THEN [renewal_payment_id EXCEPT ![u] = made.charge_id]
                                 ELSE renewal_payment_id
        /\ renewal_started_at' = [renewal_started_at EXCEPT ![u] = Some(now)]
        /\ renewal_subs' = Some(Val(renewal_subs) \ { sub })
        /\ ev' = Ev("process_subscription_renewal", u, sub.plan_type, "none", "n/a", "n/a",
                    IF made.ok THEN "renewal_charge" ELSE "renewal_failed", FALSE, FALSE)
        /\ UNCHANGED << now, subscriptions, buttons, auto_renew, checks >>
        /\ sh_unchanged

\* The scheduler's loop after a check: asyncio.sleep(86400), at the end of
\* which the next check is due.
scheduler_sleep ==
    /\ ~IsNone(renewal_subs)
    /\ Val(renewal_subs) = {}
    /\ renewal_subs' = None
    /\ checks' = checks + 1
    /\ now' = now + SECONDS_PER_DAY
    /\ ev' = Ev("scheduler_sleep", 0, "", "none", "n/a", "n/a", "none", FALSE, FALSE)
    /\ UNCHANGED << subscriptions, payments, buttons, auto_renew, last_renewal_attempt,
                    renewal_payment_id, renewal_started_at >>
    /\ sh_unchanged

\* Inputs of the renewal scenarios: a paid month and a promo code of one
\* user, the management menu and its buttons, and the daily renewal check;
\* the clock also moves to three days before a month ends and past its end.
RenewalTicks == { 28 * SECONDS_PER_DAY, 31 * SECONDS_PER_DAY }

NextRenewal ==
    \/ \E d \in RenewalTicks : Tick(d)
    \/ \E u \in Users : sh_handle_code_entry(u, "ECLIPTICA2024")
    \/ \E u \in Users, r \in BOOLEAN : sh_handle_webhook(u, 1, "monthly", r)
    \/ \E u \in Users : manage_subscription_cmd(u)
    \/ \E u \in Users, data \in { "sub:auto_renew:on", "sub:auto_renew:off" } :
          sub_auto_renew(u, data)
    \/ \E u \in Users : toggle_auto_renewal(u)
    \/ \E u \in Users : cancel_subscription(u)
    \/ check_expiring_subscriptions
    \/ \E u \in Users, p \in PlanNames, ok \in BOOLEAN :
          process_subscription_renewal([ uid |-> u, plan_type |-> p ], ok)
    \/ scheduler_sleep

SpecRenewal == Init /\ [][NextRenewal]_vars

\* Inputs of the write scenarios: promo redemptions and usage increments of
\* one user whose database statements interleave; the clock moves by a day.
db_unchanged ==
    UNCHANGED << now, ticks, user_states, profile, conv, RESPONSE_CACHE, cached_for, token_lock,
                 slots, acquired_at, pay_vars, setup_vars, asset_entry, buttons,
                 renew_vars >>

\* The first statement of create_subscription or increment_usage_count.
write_select(o, u, kind) ==
    /\ ops[o].pc = "idle"
    /\ ops' = [ops EXCEPT ![o] = [ kind |-> kind, pc |-> "selected",
                                   existing |-> select_uid(subscriptions, u),
                                   result |-> "none" ]]
    /\ ev' = Ev(kind, u, "select", "none", "n/a", "n/a", "none", FALSE, FALSE)
    /\ UNCHANGED subscriptions
    /\ db_unchanged

\* The second statement and the return of the function.
write_execute(o, u) ==
    LET done == IF ops[o].kind = "create_subscription"
                THEN create_subscription_execute(subscriptions, u, ops[o].existing,
                                                 "ECLIPTICA2024", now)
                ELSE increment_usage_count_execute(subscriptions, u, ops[o].existing)
    IN
    /\ ops[o].pc = "selected"
    /\ subscriptions' = done.subs
    /\ ops' = [ops EXCEPT ![o].pc = "done",
                          ![o].result = IF done.ok THEN "ok" ELSE "failed"]
    /\ ev' = Ev(ops[o].kind, u, "execute", "none", "n/a", "n/a", "none", TRUE, FALSE)
    /\ db_unchanged

WriteKinds == { "create_subscription", "increment_usage_count" }
WriteTicks == { SECONDS_PER_DAY }

NextWrites ==
    \/ \E d \in WriteTicks : Tick(d)
    \/ \E o \in OpIds, u \in Users, k \in WriteKinds : write_select(o, u, k)
    \/ \E o \in OpIds, u \in Users : write_execute(o, u)

SpecWrites == Init /\ [][NextWrites]_vars

\* Inputs of the payment scenarios: the subscription menu, promo codes and
\* webhook events, with and without a configured webhook secret; the clock
\* moves by a day.
InitPayment ==
    /\ InitCommon
    /\ COINBASE_WEBHOOK_SECRET \in WebhookSecrets

PaymentTicks == { SECONDS_PER_DAY }
PaymentCodes == { "ecliptica2024" }

NextPayment ==
    \/ \E d \in PaymentTicks : Tick(d)
    \/ \E u \in Users, a \in SubActions : handle_subscription_callback(u, a, TRUE)
    \/ \E u \in Users, a \in SubActions : handle_subscription_callback(u, a, FALSE)
    \/ \E e \in Events : handle_webhook(e)
    \/ \E u \in Users, t \in PaymentCodes : handle_code_entry(u, t)

SpecPayment == InitPayment /\ [][NextPayment]_vars

\* ------------------------------------------------------------------ claims
processing(u) == ~IsNone(user_states[u]) /\ Val(user_states[u]).processing
last_request_age(u) == now - Val(user_states[u]).last_request_time

\* The step just taken called check_user_state for user u.
Attempt(u) == ev'.user = u /\ ev'.acq # "none"
Rejected == ev'.acq = "busy" /\ ev'.reply \in { "please_wait", "none" }

\* C1: when the busy guard of a user has been acquired and not released, a
\* second acquire attempt for that user within the failsafe window is
\* rejected: the pair of results is (true, false).
C1_SecondAcquireRejected ==
    [][ \A u \in Users :
          ( /\ Attempt(u)
            /\ ~IsNone(acquired_at[u])
            /\ now - Val(acquired_at[u]) <= FAILSAFE_SECONDS )
          => ( Rejected /\ user_states' = user_states /\ acquired_at' = acquired_at )
      ]_vars

C1_Witness ==
    /\ ev.acq = "busy"
    /\ ev.op = "button_click"
    /\ ~IsNone(acquired_at[ev.user])
    /\ \E s \in InFlight : slots[s].guarded /\ slots[s].user = ev.user

\* C2: an invocation that set the processing flag of its user has set it
\* back to False when it ends.
C2_HandlersRelease ==
    (ev.ended /\ ev.set_busy) => ~processing(ev.user)

\* A subscription row is active: status 'active' and now before end_date.
RowActive(row, t) ==
    /\ ~IsNone(row)
    /\ Val(row).status = "active"
    /\ ~IsNone(Val(row).end_date)
    /\ t < Val(Val(row).end_date)

NeverSubscribed(row) == IsNone(row) \/ IsNone(Val(row).end_date)

\* C3: a user without any subscription is granted an analysis while the
\* stored usage_count is below FREE_ANALYSIS_LIMIT and is denied from then
\* on: exactly FREE_ANALYSIS_LIMIT grants, a denial on the next request.
C3_FreeLimitEnforced ==
    [][ \A u \in Users :
          ( /\ ev'.op = "button_click" /\ ev'.user = u /\ ev'.access # "n/a"
            /\ NeverSubscribed(subscriptions[u]) )
          => IF UsageOf(subscriptions, u) < FREE_ANALYSIS_LIMIT
             THEN ev'.reply \in { "waiting", "cached" }
             ELSE ev'.reply = "subscribe"
      ]_vars

GuardedInFlight(u) == { s \in InFlight : slots[s].guarded /\ slots[s].user = u }

\* C4: a tap of a user whose earlier request is still outstanding starts no
\* completion call and counts no usage; it only gets the please-wait notice.
C4_SecondTapIgnored ==
    [][ \A u \in Users :
          ( ev'.op = "button_click" /\ ev'.user = u /\ GuardedInFlight(u) # {} )
          => ( /\ ev'.reply = "please_wait"
               /\ slots' = slots
               /\ subscriptions' = subscriptions
               /\ RESPONSE_CACHE' = RESPONSE_CACHE )
      ]_vars

C4_Witness ==
    /\ ev.op = "button_click"
    /\ ev.reply = "please_wait"
    /\ \E s \in GuardedInFlight(ev.user) : slots[s].kind \in AnalysisTypes
    /\ UsageOf(subscriptions, ev.user) = 1

\* C5: at most one call to the completion service is in flight, and every
\* call in flight is made by the holder of the global lock.
C5_SingleFlightUnderLock ==
    /\ Cardinality(InFlight) <= 1
    /\ \A s \in InFlight : token_lock = Some(s)

\* C6: with the processing flag set, an acquire attempt succeeds and resets
\* the state when last_request_time is more than the failsafe window ago,
\* and is rejected when it is within the window.
C6_FailsafeWindow ==
    [][ \A u \in Users :
          ( Attempt(u) /\ processing(u) )
          => IF last_request_age(u) > FAILSAFE_SECONDS
             THEN /\ ev'.reply # "please_wait"
                  /\ ev'.acq = "healed"
                  /\ Val(user_states'[u]).last_request_time = now
             ELSE /\ Rejected
                  /\ user_states' = user_states
      ]_vars

C6_Witness ==
    /\ ev.acq = "healed"
    /\ ev.reply = "waiting"
    /\ processing(ev.user)

\* The step just taken granted an analysis request of user u.
GrantedAnalysis(u) ==
    /\ ev'.op = "button_click" /\ ev'.user = u
    /\ ev'.access # "n/a"
    /\ ev'.reply \in { "waiting", "cached" }

\* C7: usage_count grows by exactly 1 in the step that grants an analysis
\* to a user without an active subscription, and in no other step: not for
\* a subscriber, and not in the retries, the alternate call or the fallback
\* of the gateway.
C7_CountedOncePerGrant ==
    [][ \A u \in Users :
          UsageOf(subscriptions', u) =
              UsageOf(subscriptions, u) +
                 ( IF GrantedAnalysis(u) /\ ~RowActive(subscriptions[u], now)
                   THEN 1 ELSE 0 )
      ]_vars

C7_Witness ==
    /\ ev.op = "rei_call"
    /\ ev.reply = "fallback"
    /\ UsageOf(subscriptions, ev.user) = 1

\* C8: an analysis request of a user at or above the free limit, without an
\* active subscription, is denied; usage_count, the calls in flight and the
\* cache stay as they are.
C8_DeniedAtLimit ==
    [][ \A u \in Users :
          ( /\ ev'.op = "button_click" /\ ev'.user = u /\ ev'.access # "n/a"
            /\ UsageOf(subscriptions, u) >= FREE_ANALYSIS_LIMIT
            /\ ~RowActive(subscriptions[u], now) )
          => ( /\ ev'.reply = "subscribe"
               /\ subscriptions' = subscriptions
               /\ slots' = slots
               /\ RESPONSE_CACHE' = RESPONSE_CACHE )
      ]_vars

\* C9: the access decision allows a request with an empty advisory, and
\* without counting it, exactly when the stored row has status 'active'
\* and now is before its end_date.
C9_ActiveIffStatusAndDate ==
    [][ \A u \in Users :
          ( ev'.op = "button_click" /\ ev'.user = u /\ ev'.access # "n/a" )
          => ( ( ev'.access = "active" /\ ev'.advisory = "" )
               <=> RowActive(subscriptions[u], now) )
      ]_vars

C9_Witness ==
    /\ ev.op = "button_click"
    /\ ev.access = "active"
    /\ ev.advisory = ""
    /\ UsageOf(subscriptions, ev.user) >= FREE_ANALYSIS_LIMIT

\* C10: entering a code of the registry leaves the user with an active
\* subscription that starts now and lasts exactly that code's days;
\* entering any other text leaves the subscriptions as they are and is
\* answered with the invalid-code message.
C10_PromoRedemption ==
    [][ \A u \in Users :
          ( ev'.op = "handle_code_entry" /\ ev'.user = u )
          => IF upper(strip(ev'.arg)) \in PromoNames
             THEN LET row == Val(subscriptions'[u])
                      code == upper(strip(ev'.arg))
                  IN  /\ ev'.reply = "promo_activated"
                      /\ RowActive(subscriptions'[u], now)
                      /\ row.start_date = Some(now)
                      /\ Val(row.end_date) - Val(row.start_date)
                            = PROMO_CODES[code] * SECONDS_PER_DAY
                      /\ row.promo_code = Some(code)
                      /\ row.usage_count = UsageOf(subscriptions, u)
             ELSE /\ ev'.reply = "invalid_code"
                  /\ subscriptions' = subscriptions
      ]_vars

C10_Witness ==
    /\ ev.op = "handle_code_entry"
    /\ ev.reply = "promo_activated"
    /\ ev.arg = "ecliptica2024"
    /\ RowActive(subscriptions[ev.user], now)
    /\ now > 0

\* A row is an active subscription to one of the paid plans.
PaidActive(row, t) ==
    /\ RowActive(row, t)
    /\ \E p \in PlanNames : Val(row).plan_type = Some(p)

\* C11: a subscription with a paid plan_type becomes active only in a step
\* that processes a charge:confirmed webhook event, never in a step of the
\* subscription menu, the charge creation or the promo entry.
C11_PaidOnlyByWebhook ==
    [][ \A u \in Users :
          ( PaidActive(subscriptions'[u], now') /\ subscriptions'[u] # subscriptions[u] )
          => ( ev'.op = "handle_webhook" /\ last_event'.type = "charge:confirmed" )
      ]_vars

C11_Witness ==
    /\ ev.op = "handle_webhook"
    /\ PaidActive(subscriptions[ev.user], now)
    /\ \E c \in ChargeIds : ~IsNone(payments[c]) /\ Val(payments[c]).status = "completed"

\* The event handed to handle_webhook in this step carries the HMAC of its
\* payload under the configured secret.
SignatureVerified ==
    /\ COINBASE_WEBHOOK_SECRET # ""
    /\ last_event'.signature = hmac_hexdigest(COINBASE_WEBHOOK_SECRET, last_event'.payload)

\* C12: handle_webhook changes a payment record or a subscription record
\* only for an event whose signature was verified against the shared
\* secret; without a secret to verify against it changes nothing.
C12_NoEffectUnverified ==
    [][ ( /\ ev'.op = "handle_webhook"
          /\ payments' # payments \/ subscriptions' # subscriptions )
        => SignatureVerified
      ]_vars

\* C13: a charge:confirmed event with a valid signature for a pending
\* charge leaves the user of its metadata with an active subscription that
\* ends the purchased plan's days after the processing time, and the
\* payment record completed.
C13_ConfirmedActivates ==
    [][ ( /\ ev'.op = "handle_webhook"
          /\ SignatureVerified
          /\ last_event'.type = "charge:confirmed"
          /\ ~IsNone(last_event'.charge_id)
          /\ ~IsNone(payments[Val(last_event'.charge_id)])
          /\ Val(payments[Val(last_event'.charge_id)]).status = "pending" )
        => LET u == int(last_event'.user_id)
               c == Val(last_event'.charge_id)
           IN  /\ RowActive(subscriptions'[u], now)
               /\ Val(subscriptions'[u]).end_date =
                     Some(now + SUBSCRIPTION_PLANS[last_event'.plan_type] * SECONDS_PER_DAY)
               /\ Val(payments'[c]).status = "completed"
      ]_vars

\* C14: a payment record appears with status pending in the step that
\* requests a charge; afterwards it is never removed, and it changes only
\* from pending to completed, in a handle_webhook step.
C14_PaymentLifecycle ==
    [][ \A c \in ChargeIds :
          IF IsNone(payments[c])
          THEN \/ IsNone(payments'[c])
               \/ /\ Val(payments'[c]).status = "pending"
                  /\ ev'.op = "handle_subscription_callback"
          ELSE /\ ~IsNone(payments'[c])
               /\ Val(payments'[c]).uid = Val(payments[c]).uid
               /\ Val(payments'[c]).plan_type = Val(payments[c]).plan_type
               /\ \/ Val(payments'[c]).status = Val(payments[c]).status
                  \/ /\ ev'.op = "handle_webhook"
                     /\ Val(payments[c]).status = "pending"
                     /\ Val(payments'[c]).status = "completed"
      ]_vars

C14_Witness ==
    /\ ev.op = "handle_webhook"
    /\ \E c \in ChargeIds :
          /\ ~IsNone(payments[c])
          /\ Val(payments[c]).status = "completed"
          /\ Val(payments[c]).completed_at = Some(now)
          /\ now > 0

\* ------------------------------------------------------- completion cache
\* A step in which a handler invoked rei_call with both hints.
CallsWithHints(k) ==
    /\ ev'.op = "button_click"
    /\ ev'.hints = Some(k)
    /\ ev'.reply \in { "cached", "waiting" }

\* A step that ended a rei_call for hints k with text from a service.
ServiceTextFor(k) ==
    /\ ev'.op = "rei_call" /\ ev'.ended
    /\ ev'.hints = Some(k)
    /\ ev'.reply = "answer"

\* A step that put a new request to the primary service in flight.
InvokesService ==
    \E s \in Slots : slots[s].kind = "free" /\ slots'[s].pc = "primary"

\* C15 (as amended): a rei_call with both hints made while the cache holds an
\* entry for the same (asset, analysis kind) younger than MAX_CACHE_AGE
\* invokes no service and returns the stored text; with no entry, or an entry
\* whose age is MAX_CACHE_AGE or more, it invokes the service; and a call that
\* got its text from the primary or alternate service leaves an entry with
\* that text stamped with the current time.
C15_CacheWithinTTL ==
    [][ \A k \in CacheKeys :
          /\ CallsWithHints(k) =>
                IF /\ ~IsNone(RESPONSE_CACHE[k])
                   /\ now - Val(RESPONSE_CACHE[k]).timestamp < MAX_CACHE_AGE
                THEN /\ slots' = slots
                     /\ ev'.text = Val(RESPONSE_CACHE[k]).response
                ELSE InvokesService
          /\ ServiceTextFor(k) =>
                RESPONSE_CACHE'[k] = Some([response |-> ev'.text, timestamp |-> now])
      ]_vars

\* C15 witnesses: a second call one second before the entry expires was
\* served from the cache.
C15_Witness ==
    \E k \in CacheKeys :
        /\ ev.op = "button_click" /\ ev.reply = "cached" /\ ev.hints = Some(k)
        /\ ~IsNone(RESPONSE_CACHE[k])
        /\ now - Val(RESPONSE_CACHE[k]).timestamp = MAX_CACHE_AGE - 1

\* C15 as stated: when a rei_call for (asset, analysis kind) has just ended,
\* a second one with the same hints at the same clock value invokes no
\* service.
C15_OneInvocationPerPair ==
    [][ \A k \in CacheKeys :
          ( /\ ev.op = "rei_call" /\ ev.ended /\ ev.hints = Some(k)
            /\ CallsWithHints(k) )
          => ~InvokesService
      ]_vars

\* C16: the cache changes only in a step that ends a rei_call with both hints
\* and text from the primary or alternate service, and then only by storing
\* that text under those hints; a step that ends with a static fallback
\* leaves the cache as it was and no entry ever holds a fallback text; a
\* cache hit puts nothing in flight and returns the stored text.
C16_CacheOnlyServiceText ==
    [][ /\ RESPONSE_CACHE' # RESPONSE_CACHE =>
              /\ ev'.op = "rei_call" /\ ev'.reply = "answer"
              /\ ~IsNone(ev'.hints)
              /\ ev'.text \in ServiceTexts
              /\ RESPONSE_CACHE' =
                     [RESPONSE_CACHE EXCEPT ![Val(ev'.hints)] =
                         Some([response |-> ev'.text, timestamp |-> now])]
        /\ ev'.reply \in { "fallback", "fallback_generic" } =>
              RESPONSE_CACHE' = RESPONSE_CACHE
        /\ \A k \in CacheKeys :
              ~IsNone(RESPONSE_CACHE'[k]) =>
                  /\ Val(RESPONSE_CACHE'[k]).response \in ServiceTexts
                  /\ Val(RESPONSE_CACHE'[k]).response
                         # get_fallback_response(k[1], k[2])
        /\ ev'.reply = "cached" =>
              /\ slots' = slots
              /\ RESPONSE_CACHE' = RESPONSE_CACHE
              /\ ~IsNone(RESPONSE_CACHE[Val(ev'.hints)])
              /\ ev'.text = Val(RESPONSE_CACHE[Val(ev'.hints)]).response
      ]_vars

\* C16 witnesses: a call was served from the cache with the text the
\* alternate service had returned, while the other analysis type has no
\* entry.
C16_Witness ==
    /\ ev.op = "button_click" /\ ev.reply = "cached"
    /\ ev.text = "alt_text"
    /\ \E k \in CacheKeys : IsNone(RESPONSE_CACHE[k])

\* ---------------------------------------------------------------- fallback
\* A step in which the request in slot s ended after the alternate call, the
\* last one rei_call makes, had failed.
EndsAfterAllFailed(s) ==
    /\ slots[s].pc = "alt"
    /\ slots'[s] = FreeSlot
    /\ ev'.op = "rei_call" /\ ev'.ended
    /\ ev'.reply # "answer"

\* C17: when the primary attempts and the alternate call have all failed and
\* the asset hint is given, rei_call returns to its caller the text
\* get_fallback_response composes from (asset, analysis type), which is not
\* empty, and the request ends with that text sent.
C17_FallbackReturned ==
    [][ \A s \in Slots :
          ( EndsAfterAllFailed(s) /\ ~IsNone(slots[s].hints) ) =>
              /\ ev'.reply = "fallback"
              /\ ev'.hints = slots[s].hints
              /\ ev'.text = get_fallback_response(Val(slots[s].hints)[1],
                                                  Val(slots[s].hints)[2])
              /\ ev'.text # ""
              /\ ev'.text \notin ServiceTexts
      ]_vars

\* C17 witnesses: a trade-setup request whose primary attempts and alternate
\* call all failed ended with the fallback text.
C17_Witness ==
    /\ ev.op = "rei_call" /\ ev.ended
    /\ ev.reply = "fallback"
    /\ ev.hints = Some(<< "BTC-PERP", "setup" >>)
    /\ ev.text = get_fallback_response("BTC-PERP", "setup")

\* ------------------------------------------------------------- termination
\* C18: every rei_call terminates. While the primary service is being tried
\* the attempt in progress is at most the (max_retries + 1)-th, which is at
\* most the third; the alternate call is in progress only after
\* max_retries + 1 failed primary attempts; a failed primary attempt raises
\* the count of failures by one; the return of the alternate call ends the
\* request with a text or an exception; and every request in flight ends.
C18_Terminates ==
    /\ [](\A s \in Slots :
            /\ slots[s].pc = "primary" =>
                  /\ slots[s].retry_count + 1 <= max_retries + 1
                  /\ max_retries + 1 <= 3
            /\ slots[s].pc = "alt" => slots[s].retry_count = max_retries + 1)
    /\ [][ \A s \in Slots :
              /\ ( slots[s].pc = "primary" /\ slots'[s] # slots[s] ) =>
                    \/ slots'[s] = FreeSlot /\ ev'.ended /\ ev'.reply = "answer"
                    \/ /\ slots'[s].retry_count = slots[s].retry_count + 1
                       /\ slots'[s].pc \in { "primary", "alt" }
              /\ ( slots[s].pc = "alt" /\ slots'[s] # slots[s] ) =>
                    slots'[s] = FreeSlot /\ ev'.ended
      ]_vars
    /\ \A s \in Slots : (slots[s].kind # "free") ~> (slots[s].kind = "free")

\* C18 witnesses: a request ended with the alternate service's text, after
\* every primary attempt had failed.
C18_Witness ==
    /\ ev.op = "rei_call" /\ ev.ended
    /\ ev.reply = "answer" /\ ev.text = "alt_text"
    /\ \A s \in Slots : slots[s].kind = "free"

\* C19: a primary attempt that fails with HTTP 401 is not retried: the step
\* in which it fails leaves no primary attempt in progress for that request.
C19_FatalNotRetried ==
    [][ \A s \in Slots :
          ( /\ slots[s].pc = "primary"
            /\ slots'[s] # slots[s]
            /\ ev'.op = "rei_call" /\ ev'.arg = "status401" )
          => slots'[s].pc # "primary"
      ]_vars

\* ------------------------------------------------------------ user feedback
\* C20: a request for AI output (an analysis, a trade suggestion, /ask) ends
\* with a message sent to the user: no step ends such a request with nothing
\* sent, whatever the services returned.
C20_EndsWithMessage ==
    ( ev.op \in { "rei_call", "button_click", "ask_cmd" } /\ ev.ended )
        => ev.reply # "none"

\* ------------------------------------------------------------ setup wizard
\* The answers of a session are those of the first i questions.
InOrder(sess) ==
    /\ sess.i \in 0..len_QUESTS
    /\ DOMAIN sess.ans = { Quests[n] : n \in 1..sess.i }

\* C21: setup_start opens the wizard at index 0 with no answers; an answer
\* to the question being asked, given after in-order answers to the earlier
\* ones, moves the index on by one and records the value next to the earlier
\* answers; the answer to the last question ends the wizard and, when the
\* save succeeds, the stored profile is exactly the submitted answers, one per
\* question key; /cancel leaves the stored profile as it was.
C21_WizardSavesAnswers ==
    [][ \A u \in Users :
          /\ ( ev'.op = "setup_start" /\ setup_start(u) ) =>
                /\ user_data'[u] = Some([ i |-> 0, ans |-> EmptyAns ])
                /\ setup_state'[u] = "SETUP"
                /\ profile' = profile
          /\ ( ev'.op = "handle_setup" /\ ev'.arg \in QuestKeys ) =>
                \A v \in OPTIONS[ev'.arg], ok \in BOOLEAN :
                  LET data == << "setup", ev'.arg, v >>
                      old == Val(user_data[u])
                      new == Val(user_data'[u])
                  IN  ( /\ InOrder(old)
                        /\ old.i < len_QUESTS
                        /\ data[2] = Quests[old.i + 1]
                        /\ handle_setup(u, data, ok, TRUE) )
                      => /\ new.i = old.i + 1
                         /\ InOrder(new)
                         /\ new.ans[data[2]] = data[3]
                         /\ \A k \in DOMAIN old.ans : new.ans[k] = old.ans[k]
                         /\ IF new.i = len_QUESTS
                            THEN /\ setup_state'[u] = "END"
                                 /\ IF ok
                                    THEN /\ ~IsNone(profile'[u])
                                         /\ json_loads(Val(profile'[u])) = new.ans
                                         /\ DOMAIN json_loads(Val(profile'[u])) = QuestKeys
                                    ELSE profile' = profile
                            ELSE /\ setup_state'[u] = "SETUP"
                                 /\ profile' = profile
          /\ ( ev'.op = "cancel" /\ cancel(u) ) => profile' = profile
      ]_vars

\* C21 witnesses: the wizard was run in order to its end and stored a
\* profile that differs from the one held before.
C21_Witness ==
    \E u \in Users :
        /\ ev.op = "handle_setup" /\ ev.reply = "profile_saved"
        /\ InOrder(Val(user_data[u]))
        /\ Val(user_data[u]).i = len_QUESTS
        /\ profile[u] = Some(json_dumps(Val(user_data[u]).ans))
        /\ profile[u] # Some(StoredProfile)

\* C22: a stored profile is absent or holds one answer for every question
\* key, whatever setup callbacks the user sends while the wizard is active.
C22_ProfileComplete ==
    \A u \in Users :
        IsNone(profile[u]) \/ DOMAIN json_loads(Val(profile[u])) = QuestKeys

\* C23: when the setup conversation is not active the session holds neither
\* the wizard index nor partial answers.
C23_SessionCleared ==
    \A u \in Users : setup_state[u] = "END" => IsNone(user_data[u])

\* C24: when the save of the last answer fails the user is told so and the
\* wizard stays in its asking state with the collected answers.
C24_RetryAfterFailedSave ==
    [][ \A u \in Users :
          ( ev'.op = "handle_setup" /\ ev'.user = u /\ ev'.reply = "save_failed" )
          => /\ setup_state'[u] = "SETUP"
             /\ ~IsNone(user_data'[u])
      ]_vars

C26_NoProfileGetsOffer ==
    [][ \A u \in Users :
          ( /\ IsNone(profile[u])
            /\ ev'.op \in { "trade_start", "button_click" }
            /\ ev'.user = u )
          => /\ ev'.reply = "setup_first"
             /\ slots' = slots
      ]_vars

\* C27: free text is turned into an asset symbol only when the bot has asked
\* the user for a symbol (Custom Asset was pressed) and none was entered
\* since; in any other state the text handler makes no asset of it and does
\* not set the busy flag.
C27_TextOnlyInAssetEntry ==
    [][ \A u \in Users :
          ( /\ ev'.op = "handle_custom_asset" /\ ev'.user = u
            /\ ~asset_entry[u] )
          => /\ ev'.arg = ""
             /\ ~ev'.set_busy
      ]_vars

\* C28: when the choice of analysis type for an asset has just been shown,
\* by a top-asset button or by a typed symbol after Custom Asset, the choice
\* the user makes next is not rejected as a request in progress.
C28_ChoiceAccepted ==
    [][ \A u \in Users :
          ( /\ ev.user = u /\ ev.reply = "choose_type"
            /\ ev'.op = "button_click" /\ ev'.user = u )
          => ev'.reply # "please_wait"
      ]_vars

\* -------------------------------------------------------- subscription writes
\* C29: when a create_subscription runs for a user next to an
\* increment_usage_count or another create_subscription, with their
\* statements interleaved, every one of them completes successfully, and
\* once they have, the user's row counts every increment and is active.
C29_WritesAreUpserts ==
    \A u \in Users :
      ( \E o \in OpIds : ops[o].kind = "create_subscription" ) =>
        /\ \A o \in OpIds : ops[o].pc = "done" => ops[o].result = "ok"
        /\ ( \A o \in OpIds : ops[o].pc = "done" ) =>
              /\ ~IsNone(subscriptions[u])
              /\ Val(subscriptions[u]).usage_count =
                     Cardinality({ o \in OpIds : ops[o].kind = "increment_usage_count" })
              /\ ( \E o \in OpIds : ops[o].kind = "create_subscription" ) =>
                     Val(subscriptions[u]).status = "active"

\* ------------------------------------------------------------ request order
\* The busy flag of user u after the step.
processing_after(u) == ~IsNone(user_states'[u]) /\ Val(user_states'[u]).processing

\* C30 (as amended): for an analysis request the busy guard is acquired
\* first and the access policy is consulted only by a request that acquired
\* it: a request the guard rejects consults no policy, counts no usage and
\* calls no service; a request the policy denies calls no service and has
\* released the guard when it ends; a granted request calls the completion
\* gateway holding the guard, holds it for as long as the call is in flight,
\* and the step that delivers the response is the one that releases it.
C30_AcquireGateCallDeliverRelease ==
    [][ \A u \in Users :
          /\ ( ev'.op = "button_click" /\ ev'.user = u /\ ev'.access # "n/a" )
                => ev'.set_busy
          /\ ( ev'.op = "button_click" /\ ev'.user = u /\ ~ev'.set_busy )
                => /\ ev'.access = "n/a"
                   /\ subscriptions' = subscriptions
                   /\ slots' = slots
          /\ ( ev'.op = "button_click" /\ ev'.user = u /\ ev'.access = "denied" )
                => /\ slots' = slots
                   /\ ev'.ended /\ ~processing_after(u)
          /\ ( GrantedAnalysis(u) /\ ev'.reply = "waiting" )
                => /\ InvokesService
                   /\ processing_after(u)
          /\ \A s \in Slots :
                ( slots[s].user = u /\ slots[s].guarded /\ ~IsNone(slots[s].hints) )
                => /\ processing(u)
                   /\ IF slots'[s] = FreeSlot
                      THEN /\ ev'.ended /\ ev'.reply \in { "answer", "fallback" }
                           /\ ~processing_after(u)
                      ELSE processing_after(u)
      ]_vars

\* C30 witnesses: a granted analysis request, the user's first, went through
\* the gateway and ended with its answer delivered and the guard released.
C30_Witness ==
    /\ ev.op = "rei_call" /\ ev.ended /\ ev.set_busy
    /\ ev.reply = "answer" /\ ~IsNone(ev.hints)
    /\ ~processing(ev.user)
    /\ UsageOf(subscriptions, ev.user) = 1

\* C30 as stated: the access policy is checked before the guard is
\* acquired, so a request the policy denies has not touched the guard.
C30_GateBeforeAcquire ==
    [][ \A u \in Users :
          ( ev'.op = "button_click" /\ ev'.user = u /\ ev'.access = "denied" )
          => /\ ~ev'.set_busy
             /\ user_states' = user_states
      ]_vars

\* The stored row of u was cancelled and its end_date is still ahead.
CancelledBeforeEnd(u) ==
    /\ ~IsNone(subscriptions[u])
    /\ Val(subscriptions[u]).status = "cancelled"
    /\ ~IsNone(Val(subscriptions[u]).end_date)
    /\ Val(Val(subscriptions[u]).end_date) > now

\* C31: after sub:cancel_subscription the user keeps premium access until
\* end_date: every access decision taken before end_date allows the request
\* as a subscriber's, with no advisory and without counting it.
C31_CancelledKeepsAccess ==
    [][ \A u \in Users :
          ( /\ ev'.op = "button_click" /\ ev'.user = u /\ ev'.access # "n/a"
            /\ CancelledBeforeEnd(u) )
          => ( /\ ev'.access = "active"
               /\ UsageOf(subscriptions', u) = UsageOf(subscriptions, u) )
      ]_vars

\* C32: a step that starts a completion-service call for a user without an
\* active subscription has, in the same handler invocation, an access
\* decision that allowed the user and one increment of usage_count; this
\* for every entry point that calls rei_call.
C32_CallsGatedAndCounted ==
    [][ \A s \in Slots :
          ( /\ IsFree(s)
            /\ slots'[s].kind # "free"
            /\ ~RowActive(subscriptions[slots'[s].user], now) )
          => ( /\ ev'.access = "free"
               /\ UsageOf(subscriptions', slots'[s].user)
                     = UsageOf(subscriptions, slots'[s].user) + 1 )
      ]_vars

\* The step just taken ran create_subscription for user u with success:
\* a promo redemption or a confirmed payment.
CreatedSubscription(u) ==
    \/ ev'.op = "handle_code_entry" /\ ev'.user = u /\ ev'.reply = "promo_activated"
    \/ ev'.op = "handle_webhook" /\ ev'.user = u /\ ev'.reply = "payment_confirmed"

\* C37: create_subscription applied to a user whose subscription is active
\* never leaves an end_date earlier than the one the user had before.
C37_EndDateNeverEarlier ==
    [][ \A u \in Users :
          ( CreatedSubscription(u) /\ RowActive(subscriptions[u], now) )
          => Val(Val(subscriptions'[u]).end_date) >= Val(Val(subscriptions[u]).end_date)
      ]_vars

\* The event handed to handle_webhook in this step is a charge:confirmed
\* event delivered again: its charge is already completed and the stored
\* subscription of its user is the one that charge paid for.
Redelivered ==
    /\ ev'.op = "handle_webhook"
    /\ last_event'.type = "charge:confirmed"
    /\ ~IsNone(last_event'.charge_id)
    /\ ~IsNone(payments[Val(last_event'.charge_id)])
    /\ Val(payments[Val(last_event'.charge_id)]).status = "completed"
    /\ Val(payments[Val(last_event'.charge_id)]).plan_type = last_event'.plan_type
    /\ ~IsNone(subscriptions[int(last_event'.user_id)])
    /\ Val(subscriptions[int(last_event'.user_id)]).payment_id = last_event'.charge_id
    /\ Val(subscriptions[int(last_event'.user_id)]).plan_type = Some(last_event'.plan_type)

\* C38: a second delivery of the same charge:confirmed event leaves the
\* subscription's start_date and end_date as the first delivery set them.
C38_RedeliveryKeepsDates ==
    [][ Redelivered =>
          LET u == int(last_event'.user_id)
          IN  /\ Val(subscriptions'[u]).start_date = Val(subscriptions[u]).start_date
              /\ Val(subscriptions'[u]).end_date = Val(subscriptions[u]).end_date
      ]_vars

\* C36: create_subscription leaves the usage_count of an existing row as it
\* is and starts a new row at 0; no step decreases usage_count; and a user
\* whose usage_count had reached the free limit before subscribing is
\* denied, with nothing counted, once the subscription is no longer active.
C36_UsageSurvivesSubscription ==
    [][ \A u \in Users :
          /\ UsageOf(subscriptions', u) >= UsageOf(subscriptions, u)
          /\ CreatedSubscription(u) =>
                /\ UsageOf(subscriptions', u) = UsageOf(subscriptions, u)
                /\ IsNone(subscriptions[u]) => Val(subscriptions'[u]).usage_count = 0
          /\ ( /\ ev'.op = "button_click" /\ ev'.user = u /\ ev'.access # "n/a"
               /\ ~NeverSubscribed(subscriptions[u])
               /\ ~RowActive(subscriptions[u], now)
               /\ UsageOf(subscriptions, u) >= FREE_ANALYSIS_LIMIT )
             => ( /\ ev'.access = "denied"
                  /\ ev'.reply = "subscribe"
                  /\ subscriptions' = subscriptions
                  /\ slots' = slots )
      ]_vars

\* A denial after the end of a subscription, with a usage_count above the
\* free limit: the count was reached before the subscription, since
\* afterwards requests are granted only below the limit.
C36_Witness ==
    /\ ev.op = "button_click"
    /\ ev.access = "denied"
    /\ ~NeverSubscribed(subscriptions[ev.user])
    /\ Val(subscriptions[ev.user]).status = "active"
    /\ now >= Val(Val(subscriptions[ev.user]).end_date)
    /\ UsageOf(subscriptions, ev.user) > FREE_ANALYSIS_LIMIT

\* The wizard's index of user u, 0 before the first /setup.
IndexOf(ud, u) == IF IsNone(ud[u]) THEN 0 ELSE Val(ud[u]).i

\* C40: the wizard's index stays within 0..len(QUESTS); a step changes it
\* only by adding 1 for an answer, or by the restart; the profile is saved
\* only in the step in which the index reaches len(QUESTS); and while the
\* conversation is asking, the index is below len(QUESTS).
C40_IndexWithinWizard ==
    [][ \A u \in Users :
          /\ 0 <= IndexOf(user_data', u) /\ IndexOf(user_data', u) <= len_QUESTS
          /\ \/ IndexOf(user_data', u) = IndexOf(user_data, u)
             \/ /\ ev'.op = "handle_setup"
                /\ IndexOf(user_data', u) = IndexOf(user_data, u) + 1
             \/ ev'.op = "setup_start" /\ IndexOf(user_data', u) = 0
          /\ profile'[u] # profile[u] =>
                /\ IndexOf(user_data, u) < len_QUESTS
                /\ IndexOf(user_data', u) = len_QUESTS
          /\ setup_state'[u] = "SETUP" => IndexOf(user_data', u) < len_QUESTS
      ]_vars

\* C39: a press of the "Setup Profile Now" button (setup:start) starts the
\* wizard: the session is reset to index 0 with no answers, question 1 is
\* asked and the conversation accepts setup answers.
C39_StartButtonStartsWizard ==
    [][ \A u \in Users :
          ( ev'.op = "setup_start_button" /\ ev'.user = u )
          => ( /\ user_data'[u] = Some([ i |-> 0, ans |-> EmptyAns ])
               /\ setup_state'[u] = "SETUP"
               /\ Quests[1] \in asked'[u] )
      ]_vars

\* C35: the analysis text delivered for (asset, analysis kind) is the
\* service's reply to the prompt of the request it is delivered to, the
\* prompt that embeds the profile stored for the requesting user; a reply
\* to an earlier prompt built from a different profile is not delivered.
C35_OwnPromptOnly ==
    [][ \A u \in Users, k \in CacheKeys :
          ( /\ ev'.op = "button_click" /\ ev'.user = u
            /\ ev'.reply = "cached" /\ ev'.hints = Some(k) )
          => cached_for[k] = Some(analysis_prompt(profile[u], k[1], k[2]))
      ]_vars

\* C33: a subscription whose plan_type is 'promo' never has auto_renew set,
\* whatever promo redemptions, confirmed payments, auto-renewal toggles and
\* presses of auto-renewal buttons (also of buttons rendered before the
\* promo code was redeemed) came before.
C33_PromoNeverAutoRenews ==
    \A u \in Users :
       ( ~IsNone(subscriptions[u]) /\ Val(subscriptions[u]).plan_type = Some("promo") )
       => ~auto_renew[u]

\* The row of u is one the renewal check may renew at time t: active, with
\* auto_renew set, not a promo, and ending within the three days after t.
Renewable(u, t) ==
    /\ ~IsNone(subscriptions[u])
    /\ Val(subscriptions[u]).status = "active"
    /\ auto_renew[u]
    /\ Val(subscriptions[u]).plan_type # Some("promo")
    /\ ~IsNone(Val(subscriptions[u]).end_date)
    /\ Val(Val(subscriptions[u]).end_date) > t
    /\ Val(Val(subscriptions[u]).end_date) <= t + 3 * SECONDS_PER_DAY

\* C34: whenever the renewal check starts a renewal of a subscription (it
\* stamps last_renewal_attempt and asks for a renewal charge), the
\* subscription is active, has auto_renew set, is not a promo and ends
\* within the next three days, and no renewal of the same subscription
\* started less than 24 hours before.
C34_RenewalOncePerDayIfDue ==
    [][ \A u \in Users :
          ( ev'.op = "process_subscription_renewal" /\ ev'.user = u )
          => ( /\ Renewable(u, now)
               /\ ( IsNone(renewal_started_at[u])
                    \/ now - Val(renewal_started_at[u]) >= SECONDS_PER_DAY ) )
      ]_vars

====
